---- MODULE Spec2Model ----
(***************************************************************************)
(* State-machine model of src/travel_server.py, the "Travel Concierge"     *)
(* MCP server: fifteen tools that validate their arguments, build a        *)
(* provider parameter mapping, make one outbound call and normalise the    *)
(* answer into a success envelope or an error envelope.                    *)
(*                                                                         *)
(* One action per tool models the whole tool function.  The arguments, the *)
(* environment (credentials, the request context, the provider's answer,   *)
(* the clock) are inputs drawn from small sets.  Respond hands the         *)
(* envelope back to the agent and discards the per-call structures.        *)
(***************************************************************************)
EXTENDS Integers, Sequences, FiniteSets, TLC

VARIABLES
    status,   \* "idle", "returned", "raised" (an exception left the tool), "blocked"
    tool,     \* name of the tool of the current invocation
    args,     \* its arguments
    env,      \* what the invocation finds outside itself
    params,   \* the provider parameter mapping the tool built
    calls,    \* outbound provider calls issued by the invocation
    http_timeout, \* the timeout keyword of the requests.get it issued, None without
    result,   \* the mapping the tool returned
    amadeus_client, \* the client handle app_lifespan yields, shared by all invocations
    invocations,    \* concurrent invocations: what the runtime called and got back
    frames          \* the local variables of the tool function activations

\* the variables of one invocation at a time
call_vars == <<status, tool, args, env, params, calls, http_timeout, result>>

\* the variables of invocations running side by side
concurrent_vars == <<amadeus_client, invocations, frames>>

vars == <<call_vars, concurrent_vars>>

(***************************************************************************)
(* Bounds of the model.                                                    *)
(***************************************************************************)
\* longest result list a provider answers with
MaxItems == 2
\* datetime.now() takes a value in 0..MaxClock
MaxClock == 1
\* tool invocations the runtime has in flight at the same time
MaxWorkers == 2
\* passenger counts range up to MaxPax
MaxPax == 10

(***************************************************************************)
(* Python values.  An Optional argument is None or Some(v); a dict is a    *)
(* function from its keys; a list is a sequence.                           *)
(***************************************************************************)
None == << >>

Some(v) == <<v>>

Val(o) == o[1]

\* truthiness of an Optional[str]: None and "" are falsy
TruthyStr(o) == o # None /\ Val(o) # ""

\* truthiness of an Optional[int]: None and 0 are falsy
TruthyInt(o) == o # None /\ Val(o) # 0

\* truthiness of an Optional[List]: None and [] are falsy
TruthyList(o) == o # None /\ Val(o) # << >>

EmptyMap == << >>

\* "if cond: params[k] = v" as a one-key (or empty) update
Entry(cond, k, v) == IF cond THEN k :> v ELSE EmptyMap

Min(a, b) == IF a <= b THEN a ELSE b

Max(a, b) == IF a >= b THEN a ELSE b

Clock == 0..MaxClock

\* d.get(k, default)
DictGet(d, k, default) == IF k \in DOMAIN d THEN d[k] ELSE default

PySlice_OneMore(lst, n) == SubSeq(lst, 1, Min(n + 1, Len(lst)))

\* lst[:n]: a negative n counts from the end of the list
PySlice(lst, n) ==
    IF n >= 0 THEN SubSeq(lst, 1, Min(n, Len(lst)))
    ELSE SubSeq(lst, 1, Max(Len(lst) + n, 0))

\* lst[i] raises IndexError outside -len..len-1; a negative i counts from the end
PyIndexOk(lst, i) == -Len(lst) <= i /\ i < Len(lst)

PyIndex(lst, i) == IF i >= 0 THEN lst[i + 1] ELSE lst[Len(lst) + i + 1]

(***************************************************************************)
(* What a tool function does, as seen from outside: it returns a mapping,  *)
(* lets an exception out, or never comes back from its outbound call.      *)
(***************************************************************************)
Returned(p, c, r) ==
    [status |-> "returned", params |-> p, calls |-> c, http_timeout |-> None, result |-> r]

Raised(p, c) ==
    [status |-> "raised", params |-> p, calls |-> c, http_timeout |-> None,
     result |-> EmptyMap]

Blocked(p) ==
    [status |-> "blocked", params |-> p, calls |-> 1, http_timeout |-> None,
     result |-> EmptyMap]

ErrorEnvelope_WithKind(msg) == [error |-> msg, kind |-> "UnexpectedError"]

\* {"error": msg}
ErrorEnvelope(msg) == [error |-> msg]

(***************************************************************************)
(* The HTTP transport (requests.get, raise_for_status, response.json).     *)
(* The provider's answer is an input: no connection, a non-2xx status, a   *)
(* body that is not JSON, no answer at all, or a JSON body.  A JSON body   *)
(* is [type |-> "dict", value |-> mapping] or [type |-> "list", ...].      *)
(***************************************************************************)
ConnectionError == [kind |-> "connection_error", text |-> "Connection refused"]

HttpError == [kind |-> "http_error", text |-> "429 Client Error: Too Many Requests"]

InvalidJson == [kind |-> "invalid_json", text |-> "Expecting value: line 1 column 1 (char 0)"]

NoAnswer == [kind |-> "no_answer", text |-> "Read timed out."]

FailedResponses == {ConnectionError, HttpError, InvalidJson, NoAnswer}

OkResponse(body) == [kind |-> "ok", json |-> body]

JsonDict(m) == [type |-> "dict", value |-> m]

JsonList == [type |-> "list", value |-> << >>]

\* requests.get(url, params=params[, timeout=t]); raise_for_status(); .json():
\* a RequestException with its text, the decoded body, or a call that never ends.
\* Without a timeout a provider that never answers blocks the call for ever.
HttpGet(resp, timeout) ==
    CASE resp.kind = "ok" -> [kind |-> "json", json |-> resp.json, timeout |-> timeout]
      [] resp.kind = "no_answer" /\ timeout = None ->
            [kind |-> "blocks", timeout |-> timeout]
      [] OTHER -> [kind |-> "request_exception", text |-> resp.text, timeout |-> timeout]

\* the outcome of an invocation that issued the request r
Sent(r, out) == [out EXCEPT !.http_timeout = r.timeout]

\* os.getenv of a credential: unset, set to the empty string, or set
Credentials == {None, Some(""), Some("secret")}

\* the environments of a tool that calls SerpAPI, given the bodies it may answer
SerpapiEnvs(bodies) ==
    {[SERPAPI_KEY |-> k, http |-> ConnectionError, now |-> 0] : k \in {None, Some("")}}
    \cup {[SERPAPI_KEY |-> Some("secret"), http |-> h, now |-> 0] : h \in FailedResponses}
    \cup {[SERPAPI_KEY |-> Some("secret"), http |-> OkResponse(b), now |-> n] :
            b \in bodies, n \in Clock}

\* a message that does not say which variable
KeyRequired_Unnamed(name) == "API key is required"

\* lines 56, 63: the text of the ValueError
KeyRequired(name) == name \o " environment variable is required"

\* get_serpapi_key raises ValueError when SERPAPI_KEY is unset or empty
get_serpapi_key_raises(e) == ~TruthyStr(e.SERPAPI_KEY)

get_serpapi_key(e) == Val(e.SERPAPI_KEY)

\* the first n items of a category of provider results, in the provider's order
Items(cat, n) == [i \in 1..n |-> <<cat, i>>]

\* a provider list: the key is absent from the payload, or holds 0..MaxItems items
ProviderLists(cat) == {None} \cup {Some(Items(cat, n)) : n \in 0..MaxItems}

\* the max_results values a caller may pass, negative ones included
MaxResultsValues == (-1)..(MaxItems + 1)

(***************************************************************************)
(* search_flights_serpapi                                                  *)
(***************************************************************************)
FlightsSerpapiBase ==
    [departure_id |-> "DEL", arrival_id |-> "CDG", outbound_date |-> "2025-06-15",
     return_date |-> None, trip_type |-> 1, adults |-> 1, children |-> 0,
     infants_in_seat |-> 0, infants_on_lap |-> 0, travel_class |-> 1,
     currency |-> "USD", country |-> "us", language |-> "en", max_results |-> 1]

FlightsSerpapiArgs ==
    {[FlightsSerpapiBase EXCEPT !.return_date = rd, !.trip_type = tt] :
        rd \in {None, Some(""), Some("2025-06-20")}, tt \in 0..4}
    \cup {[FlightsSerpapiBase EXCEPT !.travel_class = tc] : tc \in (-4)..5}
    \cup {[FlightsSerpapiBase EXCEPT !.max_results = m] : m \in MaxResultsValues}

FlightsSerpapiBodies ==
    {JsonDict(Entry(b # None, "best_flights", Val(b))
              @@ Entry(o # None, "other_flights", Val(o))
              @@ [price_insights |-> [lowest_price |-> 420], airports |-> <<"DEL", "CDG">>]) :
        b \in ProviderLists("best"), o \in ProviderLists("other")}
    \cup {JsonDict(EmptyMap),
          JsonDict([error |-> "Google Flights hasn't returned any results for this query."]),
          JsonList}

\* lines 139-154: the keys every request carries
FlightsSerpapiRequired(a, api_key) ==
    [engine |-> "google_flights", departure_id |-> a.departure_id,
     arrival_id |-> a.arrival_id, outbound_date |-> a.outbound_date,
     type |-> a.trip_type, adults |-> a.adults, children |-> a.children,
     infants_in_seat |-> a.infants_in_seat, infants_on_lap |-> a.infants_on_lap,
     travel_class |-> a.travel_class, currency |-> a.currency,
     hl |-> a.language, gl |-> a.country, api_key |-> api_key]

FlightsSerpapiParams_AnyTripType(a, api_key) ==
    Entry(TruthyStr(a.return_date), "return_date", Val(a.return_date))
    @@ FlightsSerpapiRequired(a, api_key)

\* lines 139-157: the parameter mapping sent to SerpAPI
FlightsSerpapiParams(a, api_key) ==
    Entry(TruthyStr(a.return_date) /\ a.trip_type = 1, "return_date", Val(a.return_date))
    @@ FlightsSerpapiRequired(a, api_key)

TripTypeLabel(trip_type) ==
    IF trip_type = 1 THEN "Round trip" ELSE IF trip_type = 2 THEN "One way" ELSE "Multi-city"

TravelClassLabels == <<"Economy", "Premium economy", "Business", "First">>

\* processed_results stamped a second time, outside search_metadata
FlightsSerpapiEnvelope_StampedTwice(a, flight_data, now) ==
    [provider |-> "Google Flights (SerpAPI)",
     search_metadata |->
        [departure |-> a.departure_id, arrival |-> a.arrival_id,
         outbound_date |-> a.outbound_date, return_date |-> a.return_date,
         trip_type |-> TripTypeLabel(a.trip_type),
         passengers |-> [adults |-> a.adults, children |-> a.children,
                         infants_in_seat |-> a.infants_in_seat,
                         infants_on_lap |-> a.infants_on_lap],
         travel_class |-> PyIndex(TravelClassLabels, a.travel_class - 1),
         currency |-> a.currency, search_timestamp |-> now],
     best_flights |-> PySlice(DictGet(flight_data, "best_flights", << >>), a.max_results),
     other_flights |-> PySlice(DictGet(flight_data, "other_flights", << >>), a.max_results),
     price_insights |-> DictGet(flight_data, "price_insights", EmptyMap),
     airports |-> DictGet(flight_data, "airports", << >>),
     retrieved_at |-> now]

\* lines 166-188: processed_results
FlightsSerpapiEnvelope(a, flight_data, now) ==
    [provider |-> "Google Flights (SerpAPI)",
     search_metadata |->
        [departure |-> a.departure_id, arrival |-> a.arrival_id,
         outbound_date |-> a.outbound_date, return_date |-> a.return_date,
         trip_type |-> TripTypeLabel(a.trip_type),
         passengers |-> [adults |-> a.adults, children |-> a.children,
                         infants_in_seat |-> a.infants_in_seat,
                         infants_on_lap |-> a.infants_on_lap],
         travel_class |-> PyIndex(TravelClassLabels, a.travel_class - 1),
         currency |-> a.currency, search_timestamp |-> now],
     best_flights |-> PySlice(DictGet(flight_data, "best_flights", << >>), a.max_results),
     other_flights |-> PySlice(DictGet(flight_data, "other_flights", << >>), a.max_results),
     price_insights |-> DictGet(flight_data, "price_insights", EmptyMap),
     airports |-> DictGet(flight_data, "airports", << >>)]

search_flights_serpapi(a, e) ==
    IF get_serpapi_key_raises(e)
    THEN Returned(EmptyMap, 0, ErrorEnvelope(KeyRequired("SERPAPI_KEY")))
    ELSE LET p == FlightsSerpapiParams(a, get_serpapi_key(e))
             r == HttpGet(e.http, None)
         IN  Sent(r, CASE r.kind = "blocks" -> Blocked(p)
               [] r.kind = "request_exception" ->
                    Returned(p, 1, ErrorEnvelope("Google Flights API request failed: " \o r.text))
               [] ~PyIndexOk(TravelClassLabels, a.travel_class - 1) ->
                    Returned(p, 1, ErrorEnvelope("Unexpected error: list index out of range"))
               [] r.json.type # "dict" ->
                    Returned(p, 1, ErrorEnvelope("Unexpected error: 'list' object has no attribute 'get'"))
               [] OTHER -> Returned(p, 1, FlightsSerpapiEnvelope(a, r.json.value, e.now)))

(***************************************************************************)
(* The Amadeus tools.  Each reads the client handle from the request       *)
(* context, builds its parameters, then logs and calls the SDK inside a    *)
(* try block whose handlers log again before they return.                  *)
(***************************************************************************)
\* json.dumps(m): the str holding the JSON text of m (json.loads gives m back)
json_dumps(m) == [json |-> m]

\* the optional string arguments a caller may pass: unset, empty, a value
OptStrs == {None, Some(""), Some("VAL")}

\* the records that differ from base in at most one of the keys
VaryEach(base, keys, values) == {[base EXCEPT ![k] = v] : k \in keys, v \in values}

ResponseError == [kind |-> "response_error", text |-> "[400] Bad request"]

AttributeError == [kind |-> "attribute_error", text |-> "'Shopping' object has no attribute 'activities'"]

SdkException == [kind |-> "exception", text |-> "unexpected keyword argument"]

SdkOk(body) == [kind |-> "ok", body |-> body]

AmadeusBodies == {JsonDict([data |-> Items("offer", n)]) : n \in 0..MaxItems} \cup {JsonList}

\* the environments of an Amadeus tool: the request context may hold no client
\* handle, ctx.info may raise, the SDK call may fail or answer
AmadeusEnvs ==
    {[ctx |-> "unavailable", log |-> "ok", sdk |-> ResponseError, now |-> 0],
     [ctx |-> "ok", log |-> "fails", sdk |-> ResponseError, now |-> 0]}
    \cup {[ctx |-> "ok", log |-> "ok", sdk |-> x, now |-> 0] :
            x \in {ResponseError, AttributeError, SdkException}}
    \cup {[ctx |-> "ok", log |-> "ok", sdk |-> SdkOk(b), now |-> n] :
            b \in AmadeusBodies, n \in Clock}

\* result = response.body; result["provider"] = ...; result["search_timestamp"] = ...
AmadeusEnvelope(body, now) ==
    ("provider" :> "Amadeus GDS") @@ ("search_timestamp" :> now) @@ body

CapabilityNote == "This API might require a newer SDK version or special access"

\* AmadeusCall without the "except AttributeError" clauses
AmadeusCall_NoCapabilityClause(p, e, capability) ==
    CASE e.log = "fails" -> Raised(p, 0)
      [] e.sdk.kind = "response_error" ->
            Returned(p, 1, json_dumps(ErrorEnvelope("Amadeus API error: " \o e.sdk.text)))
      [] e.sdk.kind \in {"attribute_error", "exception"} ->
            Returned(p, IF e.sdk.kind = "exception" THEN 1 ELSE 0,
                     json_dumps(ErrorEnvelope("Unexpected error: " \o e.sdk.text)))
      [] e.sdk.body.type # "dict" ->
            Returned(p, 1, json_dumps(ErrorEnvelope(
                "Unexpected error: list indices must be integers or slices, not str")))
      [] OTHER -> Returned(p, 1, json_dumps(AmadeusEnvelope(e.sdk.body.value, e.now)))

\* the try block of an Amadeus tool and its handlers; capability says whether the
\* tool has an "except AttributeError" clause (the two activity tools have)
AmadeusCall(p, e, capability) ==
    CASE e.log = "fails" -> Raised(p, 0)
      [] e.sdk.kind = "response_error" ->
            Returned(p, 1, json_dumps(ErrorEnvelope("Amadeus API error: " \o e.sdk.text)))
      [] e.sdk.kind = "attribute_error" /\ capability ->
            Returned(p, 0, json_dumps(
                [error |-> "Tours and Activities API not available in current SDK version: "
                           \o e.sdk.text,
                 note |-> CapabilityNote]))
      [] e.sdk.kind = "attribute_error" ->
            Returned(p, 0, json_dumps(ErrorEnvelope("Unexpected error: " \o e.sdk.text)))
      [] e.sdk.kind = "exception" ->
            Returned(p, 1, json_dumps(ErrorEnvelope("Unexpected error: " \o e.sdk.text)))
      [] e.sdk.body.type # "dict" ->
            Returned(p, 1, json_dumps(ErrorEnvelope(
                "Unexpected error: list indices must be integers or slices, not str")))
      [] OTHER -> Returned(p, 1, json_dumps(AmadeusEnvelope(e.sdk.body.value, e.now)))

\* ctx.request_context.lifespan_context.amadeus_client, read outside any try block
ClientHandleRaises(e) == e.ctx = "unavailable"

(***************************************************************************)
(* search_flights_amadeus                                                  *)
(***************************************************************************)
MinAdults == 1

MaxAdults == 9

MaxSeated == 9

FlightsAmadeusBase ==
    [originLocationCode |-> "SYD", destinationLocationCode |-> "BKK",
     departureDate |-> "2025-06-15", adults |-> 1, returnDate |-> None,
     children |-> None, infants |-> None, travelClass |-> None,
     includedAirlineCodes |-> None, excludedAirlineCodes |-> None, nonStop |-> None,
     currencyCode |-> None, maxPrice |-> None, max |-> Some(250)]

FlightsAmadeusArgs ==
    {[FlightsAmadeusBase EXCEPT !.adults = ad, !.children = ch, !.infants = inf] :
        ad \in (-1)..MaxPax,
        ch \in {None, Some(0), Some(1), Some(8), Some(9)},
        inf \in {None, Some(0), Some(1), Some(2), Some(9)}}
    \cup VaryEach(FlightsAmadeusBase,
                  {"returnDate", "travelClass", "includedAirlineCodes",
                   "excludedAirlineCodes", "currencyCode"}, OptStrs)
    \cup {[FlightsAmadeusBase EXCEPT !.nonStop = ns, !.maxPrice = mp, !.max = mx] :
            ns \in {None, Some(FALSE), Some(TRUE)},
            mp \in {None, Some(0), Some(500)},
            mx \in {None, Some(0), Some(250)}}

\* line 238: if adults and not (1 <= adults <= 9)
AdultsRejected(a) == a.adults # 0 /\ ~(MinAdults <= a.adults /\ a.adults <= MaxAdults)

\* line 241: if children and infants and adults and (adults + children > 9)
SeatedRejected(a) ==
    /\ TruthyInt(a.children)
    /\ TruthyInt(a.infants)
    /\ a.adults # 0
    /\ a.adults + Val(a.children) > MaxSeated

\* line 244: if infants and adults and (infants > adults)
InfantsRejected(a) ==
    /\ TruthyInt(a.infants)
    /\ a.adults # 0
    /\ Val(a.infants) > a.adults

\* lines 249-252: the keys every request carries
FlightsAmadeusRequired(a) ==
    [originLocationCode |-> a.originLocationCode,
     destinationLocationCode |-> a.destinationLocationCode,
     departureDate |-> a.departureDate, adults |-> a.adults]

\* lines 254-273: the optional keys
FlightsAmadeusOptional(a) ==
    Entry(TruthyStr(a.returnDate), "returnDate", Val(a.returnDate))
    @@ Entry(a.children # None, "children", Val(a.children))
    @@ Entry(a.infants # None, "infants", Val(a.infants))
    @@ Entry(TruthyStr(a.travelClass), "travelClass", Val(a.travelClass))
    @@ Entry(TruthyStr(a.includedAirlineCodes), "includedAirlineCodes",
             Val(a.includedAirlineCodes))
    @@ Entry(TruthyStr(a.excludedAirlineCodes), "excludedAirlineCodes",
             Val(a.excludedAirlineCodes))
    @@ Entry(a.nonStop # None, "nonStop", Val(a.nonStop))
    @@ Entry(TruthyStr(a.currencyCode), "currencyCode", Val(a.currencyCode))
    @@ Entry(a.maxPrice # None, "maxPrice", Val(a.maxPrice))
    @@ Entry(a.max # None, "max", Val(a.max))

FlightsAmadeusParams_ChildrenDefault(a) ==
    FlightsAmadeusOptional(a) @@ FlightsAmadeusRequired(a) @@ [children |-> 0]

\* lines 248-273
FlightsAmadeusParams(a) == FlightsAmadeusOptional(a) @@ FlightsAmadeusRequired(a)

search_flights_amadeus(a, e) ==
    CASE AdultsRejected(a) ->
            Returned(EmptyMap, 0, json_dumps(ErrorEnvelope("Adults must be between 1 and 9")))
      [] SeatedRejected(a) ->
            Returned(EmptyMap, 0, json_dumps(ErrorEnvelope(
                "Total number of seated travelers (adults + children) cannot exceed 9")))
      [] InfantsRejected(a) ->
            Returned(EmptyMap, 0, json_dumps(ErrorEnvelope(
                "Number of infants cannot exceed number of adults")))
      [] ClientHandleRaises(e) -> Raised(EmptyMap, 0)
      [] OTHER -> AmadeusCall(FlightsAmadeusParams(a), e, FALSE)

(***************************************************************************)
(* search_hotels_amadeus_by_city and search_hotels_amadeus_geocode         *)
(***************************************************************************)
HotelFilterKeys == {"radiusUnit", "chainCodes", "amenities", "ratings", "hotelSource"}

HotelsByCityBase ==
    [cityCode |-> "PAR", radius |-> None, radiusUnit |-> None, chainCodes |-> None,
     amenities |-> None, ratings |-> None, hotelSource |-> None]

HotelsByCityArgs ==
    VaryEach(HotelsByCityBase, HotelFilterKeys, OptStrs)
    \cup {[HotelsByCityBase EXCEPT !.radius = r] : r \in {None, Some(0), Some(5)}}

\* lines 452-463 and 511-522: the optional hotel filters
HotelFilterParams(a) ==
    Entry(a.radius # None, "radius", Val(a.radius))
    @@ Entry(TruthyStr(a.radiusUnit), "radiusUnit", Val(a.radiusUnit))
    @@ Entry(TruthyStr(a.chainCodes), "chainCodes", Val(a.chainCodes))
    @@ Entry(TruthyStr(a.amenities), "amenities", Val(a.amenities))
    @@ Entry(TruthyStr(a.ratings), "ratings", Val(a.ratings))
    @@ Entry(TruthyStr(a.hotelSource), "hotelSource", Val(a.hotelSource))

HotelsByCityParams(a) == HotelFilterParams(a) @@ [cityCode |-> a.cityCode]

search_hotels_amadeus_by_city(a, e) ==
    IF ClientHandleRaises(e) THEN Raised(EmptyMap, 0)
    ELSE AmadeusCall(HotelsByCityParams(a), e, FALSE)

HotelsGeocodeBase ==
    [latitude |-> 48, longitude |-> 2, radius |-> None, radiusUnit |-> None,
     chainCodes |-> None, amenities |-> None, ratings |-> None, hotelSource |-> None]

HotelsGeocodeArgs ==
    VaryEach(HotelsGeocodeBase, HotelFilterKeys, OptStrs)
    \cup {[HotelsGeocodeBase EXCEPT !.radius = r] : r \in {None, Some(0), Some(5)}}

HotelsGeocodeParams(a) ==
    HotelFilterParams(a) @@ [latitude |-> a.latitude, longitude |-> a.longitude]

search_hotels_amadeus_geocode(a, e) ==
    IF ClientHandleRaises(e) THEN Raised(EmptyMap, 0)
    ELSE AmadeusCall(HotelsGeocodeParams(a), e, FALSE)

(***************************************************************************)
(* search_hotel_offers_amadeus                                             *)
(***************************************************************************)
HotelOffersBase ==
    [cityCode |-> Some("PAR"), hotelIds |-> None, checkInDate |-> None,
     checkOutDate |-> None, adults |-> 1, roomQuantity |-> None, priceRange |-> None,
     currency |-> None, paymentPolicy |-> None, boardType |-> None,
     includeClosed |-> None, bestRateOnly |-> None, view |-> None, sort |-> None,
     lang |-> None]

HotelOffersStrKeys ==
    {"checkInDate", "checkOutDate", "priceRange", "currency", "paymentPolicy",
     "boardType", "view", "sort", "lang"}

HotelOffersArgs ==
    {[HotelOffersBase EXCEPT !.cityCode = c, !.hotelIds = h] :
        c \in {None, Some(""), Some("PAR")}, h \in {None, Some(""), Some("H1,H2")}}
    \cup VaryEach(HotelOffersBase, HotelOffersStrKeys, OptStrs)
    \cup {[HotelOffersBase EXCEPT !.roomQuantity = q, !.includeClosed = ic,
                                  !.bestRateOnly = br] :
            q \in {None, Some(0), Some(2)},
            ic \in {None, Some(FALSE), Some(TRUE)},
            br \in {None, Some(FALSE), Some(TRUE)}}

HotelOffersRejected_OnlyNone(a) == a.cityCode = None /\ a.hotelIds = None

\* line 581: if not cityCode and not hotelIds
HotelOffersRejected(a) == ~TruthyStr(a.cityCode) /\ ~TruthyStr(a.hotelIds)

\* lines 585-614
HotelOffersParams(a) ==
    Entry(TruthyStr(a.cityCode), "cityCode", Val(a.cityCode))
    @@ Entry(TruthyStr(a.hotelIds), "hotelIds", Val(a.hotelIds))
    @@ Entry(TruthyStr(a.checkInDate), "checkInDate", Val(a.checkInDate))
    @@ Entry(TruthyStr(a.checkOutDate), "checkOutDate", Val(a.checkOutDate))
    @@ Entry(a.roomQuantity # None, "roomQuantity", Val(a.roomQuantity))
    @@ Entry(TruthyStr(a.priceRange), "priceRange", Val(a.priceRange))
    @@ Entry(TruthyStr(a.currency), "currency", Val(a.currency))
    @@ Entry(TruthyStr(a.paymentPolicy), "paymentPolicy", Val(a.paymentPolicy))
    @@ Entry(TruthyStr(a.boardType), "boardType", Val(a.boardType))
    @@ Entry(a.includeClosed # None, "includeClosed", Val(a.includeClosed))
    @@ Entry(a.bestRateOnly # None, "bestRateOnly", Val(a.bestRateOnly))
    @@ Entry(TruthyStr(a.view), "view", Val(a.view))
    @@ Entry(TruthyStr(a.sort), "sort", Val(a.sort))
    @@ Entry(TruthyStr(a.lang), "lang", Val(a.lang))
    @@ [adults |-> a.adults]

search_hotel_offers_amadeus(a, e) ==
    CASE HotelOffersRejected(a) ->
            Returned(EmptyMap, 0, json_dumps(ErrorEnvelope(
                "Either cityCode or hotelIds must be provided")))
      [] ClientHandleRaises(e) -> Raised(EmptyMap, 0)
      [] OTHER -> AmadeusCall(HotelOffersParams(a), e, FALSE)

(***************************************************************************)
(* search_activities_amadeus and get_activity_details_amadeus              *)
(***************************************************************************)
ActivitiesArgs ==
    {[latitude |-> 48, longitude |-> 2, radius |-> r, radiusUnit |-> u] :
        r \in {None, Some(0), Some(1), Some(5)}, u \in {"KM", "MI"}}

\* lines 744-749: "radius": radius or 1
ActivitiesParams(a) ==
    [latitude |-> a.latitude, longitude |-> a.longitude,
     radius |-> IF TruthyInt(a.radius) THEN Val(a.radius) ELSE 1,
     radiusUnit |-> a.radiusUnit]

search_activities_amadeus(a, e) ==
    IF ClientHandleRaises(e) THEN Raised(EmptyMap, 0)
    ELSE AmadeusCall(ActivitiesParams(a), e, TRUE)

ActivityDetailsArgs == {[activityId |-> id] : id \in {"23642", ""}}

\* lines 788-809: the activity id is part of the SDK path, there are no parameters
get_activity_details_amadeus(a, e) ==
    IF ClientHandleRaises(e) THEN Raised(EmptyMap, 0)
    ELSE AmadeusCall(EmptyMap, e, TRUE)

(***************************************************************************)
(* search_hotels_serpapi                                                   *)
(***************************************************************************)
\* ",".join(map(str, xs))
RECURSIVE CommaJoin(_)
CommaJoin(xs) ==
    IF xs = << >> THEN ""
    ELSE IF Len(xs) = 1 THEN ToString(xs[1])
    ELSE ToString(xs[1]) \o "," \o CommaJoin(Tail(xs))

\* the optional list arguments a caller may pass: unset, empty, a list
OptLists == {None, Some(<< >>), Some(<<4, 5>>)}

HotelsSerpapiBase ==
    [location |-> "Paris city center", check_in_date |-> "2025-06-15",
     check_out_date |-> "2025-06-20", adults |-> 2, children |-> 0,
     children_ages |-> None, currency |-> "USD", country |-> "us", language |-> "en",
     sort_by |-> None, hotel_class |-> None, amenities |-> None,
     property_types |-> None, brands |-> None, free_cancellation |-> FALSE,
     special_offers |-> FALSE, vacation_rentals |-> FALSE, bedrooms |-> None,
     max_results |-> 1]

HotelsSerpapiArgs ==
    VaryEach(HotelsSerpapiBase,
             {"children_ages", "hotel_class", "amenities", "property_types", "brands"},
             OptLists)
    \cup {[HotelsSerpapiBase EXCEPT !.sort_by = sb, !.bedrooms = br] :
            sb \in {None, Some(0), Some(3)}, br \in {None, Some(0), Some(2)}}
    \cup {[HotelsSerpapiBase EXCEPT !.free_cancellation = fc, !.special_offers = so,
                                    !.vacation_rentals = vr] :
            fc \in BOOLEAN, so \in BOOLEAN, vr \in BOOLEAN}
    \cup {[HotelsSerpapiBase EXCEPT !.max_results = m] : m \in MaxResultsValues}

HotelsSerpapiBodies ==
    {JsonDict(Entry(pl # None, "properties", Val(pl))
              @@ [filters |-> [price |-> "low"],
                  search_parameters |-> [engine |-> "google_hotels"],
                  place_results |-> [title |-> "Paris"]]) :
        pl \in ProviderLists("property")}
    \cup {JsonDict(EmptyMap),
          JsonDict([error |-> "Google Hotels hasn't returned any results for this query."]),
          JsonList}

\* lines 353-386
HotelsSerpapiParams(a, api_key) ==
    Entry(TruthyList(a.children_ages), "children_ages", CommaJoin(Val(a.children_ages)))
    @@ Entry(TruthyInt(a.sort_by), "sort_by", Val(a.sort_by))
    @@ Entry(TruthyList(a.hotel_class), "hotel_class", CommaJoin(Val(a.hotel_class)))
    @@ Entry(TruthyList(a.amenities), "amenities", CommaJoin(Val(a.amenities)))
    @@ Entry(TruthyList(a.property_types), "property_types", CommaJoin(Val(a.property_types)))
    @@ Entry(TruthyList(a.brands), "brands", CommaJoin(Val(a.brands)))
    @@ Entry(a.free_cancellation, "free_cancellation", "true")
    @@ Entry(a.special_offers, "special_offers", "true")
    @@ Entry(a.vacation_rentals, "vacation_rentals", "true")
    @@ Entry(TruthyInt(a.bedrooms), "bedrooms", Val(a.bedrooms))
    @@ [engine |-> "google_hotels", q |-> a.location, check_in_date |-> a.check_in_date,
        check_out_date |-> a.check_out_date, adults |-> a.adults,
        children |-> a.children, currency |-> a.currency, gl |-> a.country,
        hl |-> a.language, api_key |-> api_key]

\* lines 395-413: processed_results
HotelsSerpapiEnvelope(a, hotel_data, now) ==
    [provider |-> "Google Hotels (SerpAPI)",
     search_metadata |->
        [location |-> a.location, check_in_date |-> a.check_in_date,
         check_out_date |-> a.check_out_date,
         guests |-> [adults |-> a.adults, children |-> a.children,
                     children_ages |-> IF TruthyList(a.children_ages)
                                       THEN Val(a.children_ages) ELSE << >>],
         currency |-> a.currency, search_timestamp |-> now],
     properties |-> PySlice(DictGet(hotel_data, "properties", << >>), a.max_results),
     filters |-> DictGet(hotel_data, "filters", EmptyMap),
     search_parameters |-> DictGet(hotel_data, "search_parameters", EmptyMap),
     location_info |-> DictGet(hotel_data, "place_results", EmptyMap)]

search_hotels_serpapi(a, e) ==
    IF get_serpapi_key_raises(e)
    THEN Returned(EmptyMap, 0, ErrorEnvelope(KeyRequired("SERPAPI_KEY")))
    ELSE LET p == HotelsSerpapiParams(a, get_serpapi_key(e))
             r == HttpGet(e.http, None)
         IN  Sent(r, CASE r.kind = "blocks" -> Blocked(p)
               [] r.kind = "request_exception" ->
                    Returned(p, 1, ErrorEnvelope("Google Hotels API request failed: " \o r.text))
               [] r.json.type # "dict" ->
                    Returned(p, 1, ErrorEnvelope("Unexpected error: 'list' object has no attribute 'get'"))
               [] OTHER -> Returned(p, 1, HotelsSerpapiEnvelope(a, r.json.value, e.now)))

(***************************************************************************)
(* search_events_serpapi                                                   *)
(***************************************************************************)
EventsArgs ==
    {[query |-> "concerts", location |-> loc, date_filter |-> df, event_type |-> et,
      language |-> "en", country |-> "us", max_results |-> 1] :
        loc \in {None, Some(""), Some("Paris")},
        df \in {None, Some(""), Some("today")},
        et \in {None, Some(""), Some("Virtual-Event")}}
    \cup {[query |-> "concerts", location |-> None, date_filter |-> None,
           event_type |-> None, language |-> "en", country |-> "us", max_results |-> m] :
            m \in MaxResultsValues}

EventsBodies ==
    {JsonDict(Entry(ev # None, "events_results", Val(ev))
              @@ [search_parameters |-> [engine |-> "google_events"]]) :
        ev \in ProviderLists("event")}
    \cup {JsonDict(EmptyMap),
          JsonDict([error |-> "Google Events hasn't returned any results for this query."]),
          JsonList}

\* lines 671-673
EventsSearchQuery(a) ==
    IF TruthyStr(a.location) THEN a.query \o " in " \o Val(a.location) ELSE a.query

\* lines 676-688: the second assignment to "htichips" replaces the first
EventsParams(a, api_key) ==
    Entry(TruthyStr(a.event_type), "htichips", "event_type:" \o Val(a.event_type))
    @@ Entry(TruthyStr(a.date_filter), "htichips", "date:" \o Val(a.date_filter))
    @@ [engine |-> "google_events", q |-> EventsSearchQuery(a), hl |-> a.language,
        gl |-> a.country, api_key |-> api_key]

\* lines 697-710: processed_results
EventsEnvelope(a, event_data, now) ==
    [provider |-> "Google Events (SerpAPI)",
     search_metadata |->
        [query |-> a.query, location |-> a.location, date_filter |-> a.date_filter,
         event_type |-> a.event_type, language |-> a.language, country |-> a.country,
         search_timestamp |-> now],
     events |-> PySlice(DictGet(event_data, "events_results", << >>), a.max_results),
     search_parameters |-> DictGet(event_data, "search_parameters", EmptyMap)]

search_events_serpapi(a, e) ==
    IF get_serpapi_key_raises(e)
    THEN Returned(EmptyMap, 0, ErrorEnvelope(KeyRequired("SERPAPI_KEY")))
    ELSE LET p == EventsParams(a, get_serpapi_key(e))
             r == HttpGet(e.http, None)
         IN  Sent(r, CASE r.kind = "blocks" -> Blocked(p)
               [] r.kind = "request_exception" ->
                    Returned(p, 1, ErrorEnvelope("Google Events API request failed: " \o r.text))
               [] r.json.type # "dict" ->
                    Returned(p, 1, ErrorEnvelope("Unexpected error: 'list' object has no attribute 'get'"))
               [] OTHER -> Returned(p, 1, EventsEnvelope(a, r.json.value, e.now)))

(***************************************************************************)
(* lookup_stock                                                            *)
(***************************************************************************)
\* str.upper() on the strings the model passes
Upper(s) ==
    CASE s = "dal" -> "DAL"
      [] s = "nasdaq" -> "NASDAQ"
      [] s = "usd" -> "USD"
      [] s = "eur" -> "EUR"
      [] OTHER -> s

StockArgs ==
    {[symbol |-> sy, exchange |-> ex, window |-> w, language |-> "en"] :
        sy \in {"dal", "DAL"},
        ex \in {None, Some(""), Some("nasdaq")},
        w \in {None, Some(""), Some("1M")}}

StockBodies ==
    {JsonDict([summary |-> [price |-> 45], price_movement |-> [movement |-> "Up"],
               historical_data |-> Items("quote", MaxItems), news |-> Items("news", 1)]),
     JsonDict(EmptyMap),
     JsonDict([error |-> "Google Finance hasn't returned any results for this query."]),
     JsonList}

\* lines 1176-1178
StockQuery(a) ==
    IF TruthyStr(a.exchange) THEN Upper(a.symbol) \o ":" \o Upper(Val(a.exchange))
    ELSE Upper(a.symbol)

\* lines 1181-1189
StockParams(a, api_key) ==
    Entry(TruthyStr(a.window), "window", Val(a.window))
    @@ [engine |-> "google_finance", q |-> StockQuery(a), hl |-> a.language,
        api_key |-> api_key]

\* lines 1198-1210: processed_results
StockEnvelope(a, finance_data, now) ==
    [search_metadata |->
        [symbol |-> Upper(a.symbol), exchange |-> a.exchange, window |-> a.window,
         language |-> a.language, search_timestamp |-> now],
     stock_info |-> DictGet(finance_data, "summary", EmptyMap),
     price_movement |-> DictGet(finance_data, "price_movement", EmptyMap),
     historical_data |-> DictGet(finance_data, "historical_data", << >>),
     news |-> DictGet(finance_data, "news", << >>)]

lookup_stock(a, e) ==
    IF get_serpapi_key_raises(e)
    THEN Returned(EmptyMap, 0, ErrorEnvelope(KeyRequired("SERPAPI_KEY")))
    ELSE LET p == StockParams(a, get_serpapi_key(e))
             r == HttpGet(e.http, None)
         IN  Sent(r, CASE r.kind = "blocks" -> Blocked(p)
               [] r.kind = "request_exception" ->
                    Returned(p, 1, ErrorEnvelope("API request failed: " \o r.text))
               [] r.json.type # "dict" ->
                    Returned(p, 1, ErrorEnvelope("Unexpected error: 'list' object has no attribute 'get'"))
               [] OTHER -> Returned(p, 1, StockEnvelope(a, r.json.value, e.now)))

(***************************************************************************)
(* geocode_location.  get_geolocator wraps Nominatim.geocode in geopy's     *)
(* RateLimiter with its default retry settings: a lookup that raises a     *)
(* GeocoderServiceError is tried again, and after the last try the error   *)
(* is swallowed and None returned.  What each lookup answers is an input.  *)
(***************************************************************************)
\* RateLimiter(geolocator.geocode, min_delay_seconds=1): max_retries is left at
\* its default, so at most GeocoderMaxRetries + 1 lookups are made per call
GeocoderMaxRetries == 2

Location(i) ==
    [latitude |-> 48 + i, longitude |-> 2 + i, address |-> "Paris, France",
     raw |-> [place_id |-> i]]

GeocoderTimedOut == [kind |-> "timed_out", text |-> "Service timed out"]

GeocoderUnavailable == [kind |-> "unavailable", text |-> "Service not available"]

\* an exception that is no GeocoderServiceError
GeocoderException == [kind |-> "exception", text |-> "'NoneType' object is not iterable"]

\* the subclasses of GeocoderServiceError a lookup raises
ServiceErrors == {GeocoderTimedOut, GeocoderUnavailable}

\* what one lookup may answer to a call with the given exactly_one
LookupAnswers(exactly_one) ==
    {GeocoderTimedOut, GeocoderUnavailable, GeocoderException, [kind |-> "none"]}
    \cup (IF exactly_one THEN {[kind |-> "match", value |-> Location(1)]}
          ELSE {[kind |-> "matches", value |-> [i \in 1..n |-> Location(i)]] :
                    n \in 0..MaxItems})

\* the answers of the successive lookups of one call: service errors as long as
\* the limiter retries, then an answer that ends the call, or errors to the last try
GeocodeAnswers(exactly_one) ==
    {[i \in 1..k |-> err] \o <<f>> :
        err \in ServiceErrors, k \in 0..GeocoderMaxRetries,
        f \in LookupAnswers(exactly_one) \ ServiceErrors}
    \cup {[i \in 1..(GeocoderMaxRetries + 1) |-> err] : err \in ServiceErrors}

\* RateLimiter.__call__: retry on a service error, swallow it after the last try
\* (swallow_exceptions=True, return_value_on_exception=None)
RECURSIVE RateLimiterCall(_, _)
RateLimiterCall(attempts, i) ==
    IF attempts[i] \in ServiceErrors
    THEN IF i = GeocoderMaxRetries + 1
         THEN [requests |-> i, result |-> [kind |-> "none"]]
         ELSE RateLimiterCall(attempts, i + 1)
    ELSE [requests |-> i, result |-> attempts[i]]

GeocodeArgs ==
    {[location |-> loc, exactly_one |-> one, timeout |-> 10, language |-> "en",
      addressdetails |-> TRUE, country_codes |-> cc] :
        loc \in {"Paris", "Atlantis"}, one \in BOOLEAN,
        cc \in {None, Some(""), Some("fr,be")}}

GeocodeEnvs(a) ==
    {[geocode |-> g, now |-> n] : g \in GeocodeAnswers(a.exactly_one), n \in Clock}

\* country_codes.split(",") on the strings the model passes
SplitComma(s) == IF s = "fr,be" THEN <<"fr", "be">> ELSE <<s>>

\* lines 843-851
GeocodeParams(a) ==
    Entry(TruthyStr(a.country_codes), "country_codes", SplitComma(Val(a.country_codes)))
    @@ [exactly_one |-> a.exactly_one, timeout |-> a.timeout, language |-> a.language,
        addressdetails |-> a.addressdetails]

\* the result tested against None only
GeocodeNoMatch_NoneOnly(g) == g.kind = "none"

\* line 856: if not result (None and the empty list are falsy)
GeocodeNoMatch(g) == g.kind = "none" \/ (g.kind = "matches" /\ g.value = << >>)

\* lines 857-860
GeocodeNotFound(a) ==
    [error |-> "Location '" \o a.location \o "' not found",
     suggestions |-> "Try using a more specific address or well-known landmark name"]

GeocodePlace(r) ==
    [coordinates |-> [latitude |-> r.latitude, longitude |-> r.longitude],
     address |-> r.address, raw_data |-> r.raw]

\* lines 863-888: processed_result
GeocodeEnvelope(a, g, now) ==
    IF a.exactly_one
    THEN GeocodePlace(g.value) @@ [location |-> a.location, search_timestamp |-> now]
    ELSE [location |-> a.location,
          multiple_results |-> [i \in 1..Len(g.value) |-> GeocodePlace(g.value[i])],
          search_timestamp |-> now]

geocode_location(a, e) ==
    LET p == GeocodeParams(a)
        r == RateLimiterCall(e.geocode, 1)
        g == r.result
    IN  CASE g.kind \in {"timed_out", "unavailable"} ->
                Returned(p, r.requests, ErrorEnvelope("Geocoding service error: " \o g.text))
          [] g.kind = "exception" ->
                Returned(p, r.requests, ErrorEnvelope("Unexpected error: " \o g.text))
          [] GeocodeNoMatch(g) -> Returned(p, r.requests, GeocodeNotFound(a))
          [] OTHER -> Returned(p, r.requests, GeocodeEnvelope(a, g, e.now))

(***************************************************************************)
(* calculate_distance.  Coordinates are whole degrees; a distance rounded  *)
(* to 2 decimals is held as a whole number of hundredths.                  *)
(***************************************************************************)
Abs(x) == IF x >= 0 THEN x ELSE -x

\* n/d rounded to the nearest integer, ties to even (n >= 0, d > 0)
RoundDiv(n, d) ==
    LET q == n \div d
        r == n % d
    IN  IF 2 * r < d THEN q
        ELSE IF 2 * r > d THEN q + 1
        ELSE IF q % 2 = 0 THEN q ELSE q + 1

\* geodesic() raises ValueError for a latitude outside [-90, 90]
GeodesicRaises(lat1, lat2) == Abs(lat1) > 90 \/ Abs(lat2) > 90

\* the library's geodesic distance in metres, a symmetric function of the points
GeodesicMetres(lat1, lon1, lat2, lon2) == 111195 * (Abs(lat1 - lat2) + Abs(lon1 - lon2))

\* round(distance.kilometers, 2), round(distance.miles, 2), round(distance.nautical, 2)
Kilometers(m) == RoundDiv(m, 10)

\* 100 * m / 1609.344, as m * 3125 / 50292 to stay within 32-bit integers
Miles(m) == RoundDiv(m * 3125, 50292)

Nautical(m) == RoundDiv(m * 100, 1852)

\* str.lower() on the unit strings the model passes
Lower(s) ==
    CASE s = "KM" -> "km"
      [] s = "Miles" -> "miles"
      [] s = "NM" -> "nm"
      [] OTHER -> s

DistanceArgs ==
    {[lat1 |-> la1, lon1 |-> 2, lat2 |-> la2, lon2 |-> lo2, unit |-> u] :
        la1 \in {48, 50, 91}, la2 \in {48, 51}, lo2 \in {2, 4},
        u \in {"km", "miles", "nm", "KM", "Miles", "NM", "feet"}}

DistanceEnvs == {[now |-> n] : n \in Clock}

\* the unit compared as the caller spelled it
DistanceValue_CaseSensitive(unit, m) ==
    IF unit = "miles" THEN Miles(m)
    ELSE IF unit = "nm" THEN Nautical(m)
    ELSE Kilometers(m)

\* lines 929-934
DistanceValue(unit, m) ==
    IF Lower(unit) = "miles" THEN Miles(m)
    ELSE IF Lower(unit) = "nm" THEN Nautical(m)
    ELSE Kilometers(m)

\* result with point2 echoing the first point
DistanceEnvelope_Point2FromPoint1(a, now) ==
    LET m == GeodesicMetres(a.lat1, a.lon1, a.lat2, a.lon2)
    IN  [point1 |-> [latitude |-> a.lat1, longitude |-> a.lon1],
         point2 |-> [latitude |-> a.lat1, longitude |-> a.lon1],
         distance |-> [value |-> DistanceValue(a.unit, m), unit |-> Lower(a.unit)],
         all_units |-> [kilometers |-> Kilometers(m), miles |-> Miles(m),
                        nautical_miles |-> Nautical(m)],
         calculation_timestamp |-> now]

\* lines 936-949: result
DistanceEnvelope(a, now) ==
    LET m == GeodesicMetres(a.lat1, a.lon1, a.lat2, a.lon2)
    IN  [point1 |-> [latitude |-> a.lat1, longitude |-> a.lon1],
         point2 |-> [latitude |-> a.lat2, longitude |-> a.lon2],
         distance |-> [value |-> DistanceValue(a.unit, m), unit |-> Lower(a.unit)],
         all_units |-> [kilometers |-> Kilometers(m), miles |-> Miles(m),
                        nautical_miles |-> Nautical(m)],
         calculation_timestamp |-> now]

calculate_distance(a, e) ==
    IF GeodesicRaises(a.lat1, a.lat2)
    THEN Returned(EmptyMap, 0, ErrorEnvelope(
            "Distance calculation error: Latitude must be in the [-90; 90] range."))
    ELSE Returned(EmptyMap, 0, DistanceEnvelope(a, e.now))

(***************************************************************************)
(* get_current_conditions and get_weather_forecast (Open-Meteo)            *)
(***************************************************************************)
RequestTimeout == 10

WeatherEnvs(bodies) ==
    {[http |-> h, now |-> 0] : h \in FailedResponses}
    \cup {[http |-> OkResponse(b), now |-> n] : b \in bodies, n \in Clock}

CurrentArgs == {[latitude |-> la, longitude |-> lo] : la \in {48, 52}, lo \in {2, 13}}

CurrentWeather ==
    [time |-> "2025-06-15T12:00", temperature |-> 21, windspeed |-> 9,
     winddirection |-> 180, is_day |-> 1, weathercode |-> 3]

CurrentBodies ==
    {JsonDict([current_weather |-> CurrentWeather]),
     JsonDict([current |-> [time |-> "2025-06-15T12:00", temperature |-> 21]]),
     JsonDict([current_weather |-> EmptyMap, current |-> CurrentWeather]),
     JsonDict([current_weather |-> EmptyMap]),
     JsonDict(EmptyMap),
     JsonList}

\* lines 975-980
CurrentParams(a) ==
    [latitude |-> a.latitude, longitude |-> a.longitude, current_weather |-> "true",
     timezone |-> "auto"]

\* line 985: data.get("current_weather") or data.get("current")
CurrentOf(data) ==
    IF DictGet(data, "current_weather", EmptyMap) # EmptyMap THEN data["current_weather"]
    ELSE DictGet(data, "current", EmptyMap)

\* lines 989-1001: result
CurrentEnvelope(a, current, now) ==
    [coordinates |-> [latitude |-> a.latitude, longitude |-> a.longitude],
     provider |-> "open-meteo",
     current_conditions |->
        [timestamp |-> DictGet(current, "time", None),
         temperature_c |-> DictGet(current, "temperature", None),
         windspeed_kph |-> DictGet(current, "windspeed", None),
         winddirection_deg |-> DictGet(current, "winddirection", None),
         is_day |-> DictGet(current, "is_day", None),
         weathercode |-> DictGet(current, "weathercode", None)],
     search_timestamp |-> now]

get_current_conditions(a, e) ==
    LET p == CurrentParams(a)
        r == HttpGet(e.http, Some(RequestTimeout))
    IN  Sent(r, CASE r.kind = "request_exception" ->
                Returned(p, 1, ErrorEnvelope("Weather API request failed: " \o r.text))
          [] r.json.type # "dict" ->
                Returned(p, 1, ErrorEnvelope(
                    "Error processing weather data: 'list' object has no attribute 'get'"))
          [] CurrentOf(r.json.value) = EmptyMap ->
                Returned(p, 1, ErrorEnvelope("Current weather not available"))
          [] OTHER -> Returned(p, 1, CurrentEnvelope(a, CurrentOf(r.json.value), e.now)))

\* a series of a forecast payload: JSON null, or a JSON list
JsonNull == [type |-> "null"]

JsonArr(xs) == [type |-> "list", value |-> xs]

\* output field -> provider series, hourly (lines 1055-1061) and daily (1071-1076)
HourlySeries ==
    [temperature_c |-> "temperature_2m", relative_humidity |-> "relative_humidity_2m",
     apparent_temperature_c |-> "apparent_temperature",
     precipitation_probability |-> "precipitation_probability",
     windspeed_10m |-> "windspeed_10m", winddirection_10m |-> "winddirection_10m",
     weathercode |-> "weathercode"]

DailySeries ==
    [temp_max_c |-> "temperature_2m_max", temp_min_c |-> "temperature_2m_min",
     precipitation_sum_mm |-> "precipitation_sum", sunrise |-> "sunrise",
     sunset |-> "sunset", uv_index_max |-> "uv_index_max"]

SeriesOf(hourly) == IF hourly THEN HourlySeries ELSE DailySeries

SeriesNames(hourly) == {SeriesOf(hourly)[k] : k \in DOMAIN SeriesOf(hourly)}

ForecastArgs == {[latitude |-> 48, longitude |-> 2, hourly |-> h] : h \in BOOLEAN}

\* a forecast section with n times whose series all have the given shape
ForecastSection(hourly, n, shape) ==
    [time |-> JsonArr([i \in 1..n |-> <<"t", i>>])]
    @@ CASE shape = "absent" -> EmptyMap
         [] shape = "null" -> [k \in SeriesNames(hourly) |-> JsonNull]
         [] shape = "short" ->
                [k \in SeriesNames(hourly) |-> JsonArr([i \in 1..Max(n - 1, 0) |-> <<k, i>>])]
         [] OTHER -> [k \in SeriesNames(hourly) |-> JsonArr([i \in 1..n |-> <<k, i>>])]

ForecastBodies(hourly) ==
    {JsonDict(((IF hourly THEN "hourly" ELSE "daily") :> ForecastSection(hourly, n, shape))
              @@ ((IF hourly THEN "hourly_units" ELSE "daily_units") :> [time |-> "iso8601"])) :
        n \in 0..MaxItems, shape \in {"full", "short", "absent", "null"}}
    \cup {JsonDict(EmptyMap), JsonList}

\* lines 1019-1042
ForecastParams(a) ==
    (IF a.hourly
     THEN "hourly" :> "temperature_2m,relative_humidity_2m,apparent_temperature,precipitation_probability,windspeed_10m,winddirection_10m,weathercode"
     ELSE "daily" :> "temperature_2m_max,temperature_2m_min,precipitation_sum,sunrise,sunset,uv_index_max")
    @@ [latitude |-> a.latitude, longitude |-> a.longitude, timezone |-> "auto"]

\* hourly_data.get("time", [])
ForecastTimes(section) == IF "time" \in DOMAIN section THEN section["time"].value ELSE << >>

\* len(section.get(name, [])) raises TypeError when the series is null
SeriesRaises(section, name) == name \in DOMAIN section /\ section[name].type = "null"

\* (section.get(name) or [None])[idx] if idx < len(section.get(name, [])) else None,
\* for the idx-th time (idx from 1)
SeriesValue(section, name, idx) ==
    IF name \in DOMAIN section /\ idx <= Len(section[name].value)
    THEN section[name].value[idx]
    ELSE None

\* the loop body raises at the first period when a series is null
ForecastRaises(hourly, section) ==
    /\ ForecastTimes(section) # << >>
    /\ \E name \in SeriesNames(hourly) : SeriesRaises(section, name)

\* lines 1049-1062 and 1066-1077: result_periods
ForecastPeriods(hourly, section) ==
    [idx \in 1..Len(ForecastTimes(section)) |->
        ((IF hourly THEN "time" ELSE "date") :> ForecastTimes(section)[idx])
        @@ [k \in DOMAIN SeriesOf(hourly) |->
                SeriesValue(section, SeriesOf(hourly)[k], idx)]]

\* lines 1081-1088: result
ForecastEnvelope(a, data, now) ==
    [coordinates |-> [latitude |-> a.latitude, longitude |-> a.longitude],
     provider |-> "open-meteo",
     forecast_type |-> IF a.hourly THEN "hourly" ELSE "daily",
     forecast_periods |->
        ForecastPeriods(a.hourly,
                        DictGet(data, IF a.hourly THEN "hourly" ELSE "daily", EmptyMap)),
     forecast_metadata |->
        [units |-> DictGet(data, IF a.hourly THEN "hourly_units" ELSE "daily_units",
                           EmptyMap)],
     search_timestamp |-> now]

get_weather_forecast(a, e) ==
    LET p == ForecastParams(a)
        r == HttpGet(e.http, Some(RequestTimeout))
    IN  Sent(r, CASE r.kind = "request_exception" ->
                Returned(p, 1, ErrorEnvelope("Weather API request failed: " \o r.text))
          [] r.json.type # "dict" ->
                Returned(p, 1, ErrorEnvelope(
                    "Error processing forecast data: 'list' object has no attribute 'get'"))
          [] ForecastRaises(a.hourly, DictGet(r.json.value,
                                              IF a.hourly THEN "hourly" ELSE "daily",
                                              EmptyMap)) ->
                Returned(p, 1, ErrorEnvelope(
                    "Error processing forecast data: object of type 'NoneType' has no len()"))
          [] OTHER -> Returned(p, 1, ForecastEnvelope(a, r.json.value, e.now)))

(***************************************************************************)
(* convert_currency.  An amount is a whole number of hundredths, a rate a  *)
(* whole number of ten-thousandths; the arithmetic is exact.  The provider *)
(* sends conversion_rate as a JSON number, and the code also accepts a     *)
(* JSON string or null there.                                              *)
(***************************************************************************)
RateScale == 10000

RateNumber(n) == [type |-> "number", value |-> n]

\* a JSON string holding the numeral of n
RateNumeral(n) == [type |-> "string", value |-> n]

\* a JSON string that is no numeral
RateWord == [type |-> "string"]

\* float(rate) raises ValueError on a string that is no numeral
FloatRaises(rate) == "value" \notin DOMAIN rate

\* float(rate)
Float(rate) == rate.value

CurrencyArgs ==
    {[from_currency |-> f, to_currency |-> "eur", amount |-> am, language |-> "en"] :
        f \in {"usd", "USD"}, am \in {0, 100, 10000, 12345}}

CurrencyBodies ==
    {JsonDict([result |-> "success", conversion_rate |-> RateNumber(rt)]) :
        rt \in {0, 9200, 10000, 3333}}
    \cup {JsonDict([result |-> "success", conversion_rate |-> rt]) :
            rt \in {RateNumeral(9200), RateWord, JsonNull}}
    \cup {JsonDict([result |-> "success"]),
          JsonDict(("error-type" :> "unsupported-code") @@ [result |-> "error"]),
          JsonDict([result |-> "error"]),
          JsonDict(EmptyMap),
          JsonList}

CurrencyEnvs ==
    {[EXCHANGE_RATE_API_KEY |-> k, http |-> ConnectionError, now |-> 0] :
        k \in {None, Some("")}}
    \cup {[EXCHANGE_RATE_API_KEY |-> Some("secret"), http |-> h, now |-> 0] :
            h \in FailedResponses}
    \cup {[EXCHANGE_RATE_API_KEY |-> Some("secret"), http |-> OkResponse(b), now |-> n] :
            b \in CurrencyBodies, n \in Clock}

\* get_exchange_rate_api_key raises ValueError when the variable is unset or empty
get_exchange_rate_api_key_raises(e) == ~TruthyStr(e.EXCHANGE_RATE_API_KEY)

get_exchange_rate_api_key(e) == Val(e.EXCHANGE_RATE_API_KEY)

\* line 1117: the request is the URL itself
CurrencyParams(a, api_key) ==
    [url |-> <<"v6", api_key, "pair", Upper(a.from_currency), Upper(a.to_currency)>>]

\* the product cut off after the second decimal
ConvertedAmount_Truncated(amount, rate) == (amount * Float(rate)) \div RateScale

\* line 1129: round(amount * float(rate), 2)
ConvertedAmount(amount, rate) == RoundDiv(amount * Float(rate), RateScale)

\* lines 1131-1145: processed_results
CurrencyEnvelope(a, rate, now) ==
    [search_metadata |->
        [from_currency |-> Upper(a.from_currency), to_currency |-> Upper(a.to_currency),
         amount |-> a.amount, search_timestamp |-> now, provider |-> "exchangerate-api"],
     exchange_rate |-> rate,
     conversion |-> [original_amount |-> a.amount,
                     converted_amount |-> ConvertedAmount(a.amount, rate),
                     rate |-> rate]]

convert_currency(a, e) ==
    IF get_exchange_rate_api_key_raises(e)
    THEN Returned(EmptyMap, 0, ErrorEnvelope(
            "Unexpected error: " \o KeyRequired("EXCHANGE_RATE_API_KEY")))
    ELSE LET p == CurrencyParams(a, get_exchange_rate_api_key(e))
             r == HttpGet(e.http, Some(RequestTimeout))
         IN  Sent(r, CASE r.kind = "request_exception" ->
                    Returned(p, 1, ErrorEnvelope("Currency API request failed: " \o r.text))
               [] r.json.type # "dict" ->
                    Returned(p, 1, ErrorEnvelope(
                        "Unexpected error: 'list' object has no attribute 'get'"))
               [] DictGet(r.json.value, "result", "") # "success" ->
                    Returned(p, 1, ErrorEnvelope(
                        IF DictGet(r.json.value, "error-type", "") # ""
                        THEN r.json.value["error-type"] ELSE "ExchangeRate-API error"))
               [] DictGet(r.json.value, "conversion_rate", JsonNull) = JsonNull ->
                    Returned(p, 1, ErrorEnvelope("Conversion rate not available"))
               [] FloatRaises(r.json.value["conversion_rate"]) ->
                    Returned(p, 1, ErrorEnvelope(
                        "Unexpected error: could not convert string to float: 'n/a'"))
               [] OTHER ->
                    Returned(p, 1, CurrencyEnvelope(a, r.json.value["conversion_rate"], e.now)))

(***************************************************************************)
(* The state machine.                                                      *)
(***************************************************************************)
Workers == 1..MaxWorkers

\* no invocation in flight
IdleInvocation ==
    [pc |-> "idle", tool |-> "none", args |-> EmptyMap, env |-> EmptyMap,
     status |-> "idle", result |-> EmptyMap]

\* no activation: nothing bound
NoFrame ==
    [tool |-> "none", args |-> EmptyMap, amadeus_client |-> None, params |-> EmptyMap,
     response |-> EmptyMap]

Init ==
    /\ status = "idle"
    /\ tool = "none"
    /\ args = EmptyMap
    /\ env = EmptyMap
    /\ params = EmptyMap
    /\ calls = 0
    /\ http_timeout = None
    /\ result = EmptyMap
    /\ amadeus_client = "client"
    /\ invocations = [w \in Workers |-> IdleInvocation]
    /\ frames = [w \in Workers |-> NoFrame]

\* one invocation of tool t with arguments a in environment e, behaving as out
Invoke(t, a, e, out) ==
    /\ tool' = t
    /\ args' = a
    /\ env' = e
    /\ status' = out.status
    /\ params' = out.params
    /\ calls' = out.calls
    /\ http_timeout' = out.http_timeout
    /\ UNCHANGED concurrent_vars
    /\ result' = out.result

SearchFlightsSerpapi ==
    /\ status = "idle"
    /\ \E a \in FlightsSerpapiArgs, e \in SerpapiEnvs(FlightsSerpapiBodies) :
          Invoke("search_flights_serpapi", a, e, search_flights_serpapi(a, e))

SearchFlightsAmadeus ==
    /\ status = "idle"
    /\ \E a \in FlightsAmadeusArgs, e \in AmadeusEnvs :
          Invoke("search_flights_amadeus", a, e, search_flights_amadeus(a, e))

SearchHotelsAmadeusByCity ==
    /\ status = "idle"
    /\ \E a \in HotelsByCityArgs, e \in AmadeusEnvs :
          Invoke("search_hotels_amadeus_by_city", a, e, search_hotels_amadeus_by_city(a, e))

SearchHotelsAmadeusGeocode ==
    /\ status = "idle"
    /\ \E a \in HotelsGeocodeArgs, e \in AmadeusEnvs :
          Invoke("search_hotels_amadeus_geocode", a, e, search_hotels_amadeus_geocode(a, e))

SearchHotelOffersAmadeus ==
    /\ status = "idle"
    /\ \E a \in HotelOffersArgs, e \in AmadeusEnvs :
          Invoke("search_hotel_offers_amadeus", a, e, search_hotel_offers_amadeus(a, e))

SearchActivitiesAmadeus ==
    /\ status = "idle"
    /\ \E a \in ActivitiesArgs, e \in AmadeusEnvs :
          Invoke("search_activities_amadeus", a, e, search_activities_amadeus(a, e))

GetActivityDetailsAmadeus ==
    /\ status = "idle"
    /\ \E a \in ActivityDetailsArgs, e \in AmadeusEnvs :
          Invoke("get_activity_details_amadeus", a, e, get_activity_details_amadeus(a, e))

SearchHotelsSerpapi ==
    /\ status = "idle"
    /\ \E a \in HotelsSerpapiArgs, e \in SerpapiEnvs(HotelsSerpapiBodies) :
          Invoke("search_hotels_serpapi", a, e, search_hotels_serpapi(a, e))

SearchEventsSerpapi ==
    /\ status = "idle"
    /\ \E a \in EventsArgs, e \in SerpapiEnvs(EventsBodies) :
          Invoke("search_events_serpapi", a, e, search_events_serpapi(a, e))

LookupStock ==
    /\ status = "idle"
    /\ \E a \in StockArgs, e \in SerpapiEnvs(StockBodies) :
          Invoke("lookup_stock", a, e, lookup_stock(a, e))

GeocodeLocation ==
    /\ status = "idle"
    /\ \E a \in GeocodeArgs : \E e \in GeocodeEnvs(a) :
          Invoke("geocode_location", a, e, geocode_location(a, e))

CalculateDistance ==
    /\ status = "idle"
    /\ \E a \in DistanceArgs, e \in DistanceEnvs :
          Invoke("calculate_distance", a, e, calculate_distance(a, e))

GetCurrentConditions ==
    /\ status = "idle"
    /\ \E a \in CurrentArgs, e \in WeatherEnvs(CurrentBodies) :
          Invoke("get_current_conditions", a, e, get_current_conditions(a, e))

GetWeatherForecast ==
    /\ status = "idle"
    /\ \E a \in ForecastArgs : \E e \in WeatherEnvs(ForecastBodies(a.hourly)) :
          Invoke("get_weather_forecast", a, e, get_weather_forecast(a, e))

ConvertCurrency ==
    /\ status = "idle"
    /\ \E a \in CurrencyArgs, e \in CurrencyEnvs :
          Invoke("convert_currency", a, e, convert_currency(a, e))

\* the envelope (or the exception) reaches the agent; nothing of the call is kept
Respond ==
    /\ status \in {"returned", "raised"}
    /\ status' = "idle"
    /\ tool' = "none"
    /\ args' = EmptyMap
    /\ env' = EmptyMap
    /\ params' = EmptyMap
    /\ calls' = 0
    /\ http_timeout' = None
    /\ result' = EmptyMap
    /\ UNCHANGED concurrent_vars

Next ==
    \/ SearchFlightsSerpapi
    \/ SearchFlightsAmadeus
    \/ SearchHotelsAmadeusByCity
    \/ SearchHotelsAmadeusGeocode
    \/ SearchHotelOffersAmadeus
    \/ SearchActivitiesAmadeus
    \/ GetActivityDetailsAmadeus
    \/ SearchHotelsSerpapi
    \/ SearchEventsSerpapi
    \/ LookupStock
    \/ GeocodeLocation
    \/ CalculateDistance
    \/ GetCurrentConditions
    \/ GetWeatherForecast
    \/ ConvertCurrency
    \/ Respond

Spec == Init /\ [][Next]_vars

(***************************************************************************)
(* Reading the state.                                                      *)
(***************************************************************************)
AmadeusTools ==
    {"search_flights_amadeus", "search_hotels_amadeus_by_city",
     "search_hotels_amadeus_geocode", "search_hotel_offers_amadeus",
     "search_activities_amadeus", "get_activity_details_amadeus"}

\* the mapping the agent reads: an Amadeus tool returns it as JSON text
Envelope == IF status = "returned" /\ tool \in AmadeusTools THEN result.json ELSE result

ErrorReturned == status = "returned" /\ "error" \in DOMAIN Envelope

SuccessReturned == status = "returned" /\ "error" \notin DOMAIN Envelope

\* the tool returned exactly {"error": msg}
ReturnedError(msg) == status = "returned" /\ Envelope = [error |-> msg]

\* the provider's list under key, [] when the payload has no such key
ProviderList(key) == DictGet(env.http.json.value, key, << >>)

\* out is the first min(len(lst), n) items of lst, in order
TruncatedTo(out, lst, n) ==
    /\ Len(out) = Min(Len(lst), n)
    /\ \A i \in 1..Len(out) : i <= Len(lst) /\ out[i] = lst[i]

(***************************************************************************)
(* C1.  search_hotel_offers_amadeus called with neither cityCode nor       *)
(* hotelIds (each None or empty) returns                                   *)
(* {"error": "Either cityCode or hotelIds must be provided"} and makes no  *)
(* provider call; with at least one of them present that error is not      *)
(* returned.                                                               *)
(***************************************************************************)
C1_HotelOffersNeedCityOrIds ==
    tool = "search_hotel_offers_amadeus" =>
        IF ~TruthyStr(args.cityCode) /\ ~TruthyStr(args.hotelIds)
        THEN ReturnedError("Either cityCode or hotelIds must be provided") /\ calls = 0
        ELSE ~ReturnedError("Either cityCode or hotelIds must be provided")

C1_Witness ==
    /\ tool = "search_hotel_offers_amadeus"
    /\ args.cityCode = Some("")
    /\ args.hotelIds = None
    /\ ReturnedError("Either cityCode or hotelIds must be provided")
    /\ calls = 0

(***************************************************************************)
(* C2.  search_flights_amadeus called with adults outside 1..9 (10, 0, a   *)
(* negative number) returns {"error": "Adults must be between 1 and 9"}    *)
(* and makes no provider call.                                             *)
(***************************************************************************)
C2_AdultsOutsideRangeRejected ==
    (tool = "search_flights_amadeus" /\ ~(1 <= args.adults /\ args.adults <= 9)) =>
        (ReturnedError("Adults must be between 1 and 9") /\ calls = 0)

(***************************************************************************)
(* C3.  search_flights_amadeus called with adults + children above 9       *)
(* returns the seated-travelers error (or the error of the earlier adults  *)
(* check) and makes no provider call, whatever infants is.                 *)
(***************************************************************************)
C3_SeatedAboveNineRejected ==
    (/\ tool = "search_flights_amadeus"
     /\ args.children # None
     /\ args.adults + Val(args.children) > 9) =>
        /\ calls = 0
        /\ \/ ReturnedError(
                "Total number of seated travelers (adults + children) cannot exceed 9")
           \/ ReturnedError("Adults must be between 1 and 9")

(***************************************************************************)
(* C4.  An optional argument left unset (None) has no entry in the         *)
(* parameter mapping handed to the provider.  As claimed: in all eight     *)
(* tools.  As amended: in all of them except radius of                     *)
(* search_activities_amadeus, which is sent as the default 1.              *)
(***************************************************************************)
\* the optional arguments of a tool that become a parameter of the same name
OptionalArgs(t) ==
    CASE t = "search_flights_amadeus" ->
            {"returnDate", "children", "infants", "travelClass", "includedAirlineCodes",
             "excludedAirlineCodes", "nonStop", "currencyCode", "maxPrice", "max"}
      [] t \in {"search_hotels_amadeus_by_city", "search_hotels_amadeus_geocode"} ->
            {"radius", "radiusUnit", "chainCodes", "amenities", "ratings", "hotelSource"}
      [] t = "search_hotel_offers_amadeus" ->
            {"cityCode", "hotelIds", "checkInDate", "checkOutDate", "roomQuantity",
             "priceRange", "currency", "paymentPolicy", "boardType", "includeClosed",
             "bestRateOnly", "view", "sort", "lang"}
      [] t = "search_hotels_serpapi" ->
            {"children_ages", "sort_by", "hotel_class", "amenities", "property_types",
             "brands", "bedrooms"}
      [] t = "lookup_stock" -> {"window"}
      [] OTHER -> {}

UnsetArgsOmitted ==
    /\ \A k \in OptionalArgs(tool) : args[k] = None => k \notin DOMAIN params
    /\ tool = "search_events_serpapi" =>
            /\ (args.date_filter = None /\ args.event_type = None) =>
                    "htichips" \notin DOMAIN params
            /\ (args.date_filter = None /\ "htichips" \in DOMAIN params) =>
                    params["htichips"] = "event_type:" \o Val(args.event_type)
            /\ (args.event_type = None /\ "htichips" \in DOMAIN params) =>
                    params["htichips"] = "date:" \o Val(args.date_filter)

C5_ReturnDateOnlyForRoundTrip ==
    (tool = "search_flights_serpapi" /\ calls = 1) =>
        /\ "return_date" \in DOMAIN params <=>
                (TruthyStr(args.return_date) /\ args.trip_type = 1)
        /\ "return_date" \in DOMAIN params => params["return_date"] = Val(args.return_date)

C5_Witness ==
    /\ tool = "search_flights_serpapi"
    /\ calls = 1
    /\ args.return_date = Some("2025-06-20")
    /\ args.trip_type = 2
    /\ "return_date" \notin DOMAIN params

(***************************************************************************)
(* C6.  search_flights_serpapi called with trip_type outside {1,2,3} or    *)
(* travel_class outside {1,2,3,4} returns an error envelope and makes no   *)
(* provider call.                                                          *)
(***************************************************************************)
C6_OutOfRangeEnumRejected ==
    (/\ tool = "search_flights_serpapi"
     /\ args.trip_type \notin 1..3 \/ args.travel_class \notin 1..4) =>
        (ErrorReturned /\ calls = 0)

(***************************************************************************)
(* C7.  Each truncated collection (best_flights, other_flights,            *)
(* properties, events) is the first min(len(provider list), max_results)   *)
(* items of the provider's list, in the provider's order; best_flights and *)
(* other_flights are cut separately with the same maximum.  As claimed:    *)
(* for every integer max_results.  As amended: for every max_results >= 0. *)
(***************************************************************************)
TruncationHolds ==
    /\ tool = "search_flights_serpapi" =>
            /\ TruncatedTo(Envelope.best_flights, ProviderList("best_flights"),
                           args.max_results)
            /\ TruncatedTo(Envelope.other_flights, ProviderList("other_flights"),
                           args.max_results)
    /\ tool = "search_hotels_serpapi" =>
            TruncatedTo(Envelope.properties, ProviderList("properties"), args.max_results)
    /\ tool = "search_events_serpapi" =>
            TruncatedTo(Envelope.events, ProviderList("events_results"), args.max_results)

C7_TruncationForAnyMax == SuccessReturned => TruncationHolds

C7_TruncationForNonNegativeMax ==
    (/\ SuccessReturned
     /\ tool \in {"search_flights_serpapi", "search_hotels_serpapi", "search_events_serpapi"}
     /\ args.max_results >= 0) => TruncationHolds

C7_Witness ==
    /\ SuccessReturned
    /\ tool = "search_flights_serpapi"
    /\ args.max_results = 1
    /\ Len(ProviderList("best_flights")) = 2
    /\ Len(ProviderList("other_flights")) = 0
    /\ Envelope.best_flights = <<ProviderList("best_flights")[1]>>
    /\ Envelope.other_flights = << >>

(***************************************************************************)
(* C8.  Whatever fails during a call (reading the client handle from the   *)
(* context, validation, parameter building, the outbound call, the         *)
(* normalisation, logging in an error handler), no exception leaves the    *)
(* tool function.                                                          *)
(***************************************************************************)
C8_NoExceptionLeavesTool == status # "raised"

(***************************************************************************)
(* C9.  A failure envelope has the key error and no key besides error and  *)
(* note.  As amended: geocode_location's not-found envelope has            *)
(* suggestions beside error; every other failure envelope is as claimed.   *)
(***************************************************************************)
C9_ErrorAndNoteOnly == ErrorReturned => DOMAIN Envelope \subseteq {"error", "note"}

C9_ErrorAndNoteOnlyButNotFound ==
    ErrorReturned =>
        \/ DOMAIN Envelope \subseteq {"error", "note"}
        \/ /\ tool = "geocode_location"
           /\ GeocodeNoMatch(RateLimiterCall(env.geocode, 1).result)
           /\ DOMAIN Envelope = {"error", "suggestions"}

C9_Witness ==
    /\ ErrorReturned
    /\ tool = "search_activities_amadeus"
    /\ DOMAIN Envelope = {"error", "note"}

(***************************************************************************)
(* C10.  A successful envelope of any tool has a top-level provider field  *)
(* and a timestamp.                                                        *)
(***************************************************************************)
HasTimestamp ==
    \/ DOMAIN Envelope \cap {"search_timestamp", "calculation_timestamp"} # {}
    \/ /\ "search_metadata" \in DOMAIN Envelope
       /\ "search_timestamp" \in DOMAIN Envelope.search_metadata

C10_SuccessCarriesProvider ==
    SuccessReturned => ("provider" \in DOMAIN Envelope /\ HasTimestamp)

(***************************************************************************)
(* C11.  A successful envelope of a flight search, through either          *)
(* provider, has a search_metadata block with the keys of the block        *)
(* search_flights_serpapi builds; a successful envelope of a hotel search, *)
(* through either provider, has one with the keys of the block             *)
(* search_hotels_serpapi builds.                                           *)
(***************************************************************************)
FlightSearchTools == {"search_flights_serpapi", "search_flights_amadeus"}

HotelSearchTools ==
    {"search_hotels_serpapi", "search_hotels_amadeus_by_city",
     "search_hotels_amadeus_geocode", "search_hotel_offers_amadeus"}

FlightMetadataKeys ==
    DOMAIN FlightsSerpapiEnvelope(FlightsSerpapiBase, EmptyMap, 0).search_metadata

HotelMetadataKeys ==
    DOMAIN HotelsSerpapiEnvelope(HotelsSerpapiBase, EmptyMap, 0).search_metadata

HasMetadata(keys) ==
    /\ "search_metadata" \in DOMAIN Envelope
    /\ DOMAIN Envelope.search_metadata = keys

C11_SameMetadataBothProviders ==
    SuccessReturned =>
        /\ tool \in FlightSearchTools => HasMetadata(FlightMetadataKeys)
        /\ tool \in HotelSearchTools => HasMetadata(HotelMetadataKeys)

(***************************************************************************)
(* C12.  In a successful envelope of a SerpAPI tool each auxiliary mapping *)
(* holds the provider's value when the payload has it, and its key is      *)
(* absent from the envelope when the payload has not.                      *)
(***************************************************************************)
\* <<key in the envelope, key in the provider payload>>
AuxiliaryKeys(t) ==
    CASE t = "search_flights_serpapi" ->
            {<<"price_insights", "price_insights">>, <<"airports", "airports">>}
      [] t = "search_hotels_serpapi" ->
            {<<"filters", "filters">>, <<"search_parameters", "search_parameters">>,
             <<"location_info", "place_results">>}
      [] t = "search_events_serpapi" -> {<<"search_parameters", "search_parameters">>}
      [] t = "lookup_stock" -> {<<"stock_info", "summary">>,
                                <<"price_movement", "price_movement">>}
      [] OTHER -> {}

Payload == env.http.json.value

C12_AuxiliaryPassedOrOmitted ==
    SuccessReturned =>
        \A k \in AuxiliaryKeys(tool) :
            IF k[2] \in DOMAIN Payload
            THEN k[1] \in DOMAIN Envelope /\ Envelope[k[1]] = Payload[k[2]]
            ELSE k[1] \notin DOMAIN Envelope

(***************************************************************************)
(* C13.  When the provider answers with a well-formed payload that reports *)
(* an error (a SerpAPI payload with an error entry, an ExchangeRate-API    *)
(* payload whose result is not "success" and that names an error-type),    *)
(* the tool returns the error envelope whose message is the provider's     *)
(* text, never a success envelope.                                         *)
(***************************************************************************)
SerpapiTools ==
    {"search_flights_serpapi", "search_hotels_serpapi", "search_events_serpapi",
     "lookup_stock"}

\* the provider answered with a JSON object and the tool read it
PayloadRead ==
    /\ status = "returned"
    /\ calls = 1
    /\ tool \in SerpapiTools \cup {"convert_currency"}
    /\ env.http.kind = "ok"
    /\ env.http.json.type = "dict"

C13_ProviderErrorPassedThrough ==
    /\ (PayloadRead /\ tool \in SerpapiTools /\ "error" \in DOMAIN Payload) =>
            ReturnedError(Payload["error"])
    /\ (/\ PayloadRead
        /\ tool = "convert_currency"
        /\ DictGet(Payload, "result", "") # "success"
        /\ "error-type" \in DOMAIN Payload) =>
            ReturnedError(Payload["error-type"])

(***************************************************************************)
(* C14.  A failure envelope carries the note on SDK support exactly when   *)
(* the tool is one of the two activity tools and the SDK client lacks the  *)
(* operation; every other failure envelope, of any tool, has no note.      *)
(***************************************************************************)
ActivityTools == {"search_activities_amadeus", "get_activity_details_amadeus"}

CapabilityFailure ==
    /\ tool \in ActivityTools
    /\ env.sdk.kind = "attribute_error"

C14_NoteOnlyOnCapabilityFailure ==
    ErrorReturned =>
        IF CapabilityFailure
        THEN "note" \in DOMAIN Envelope /\ Envelope.note = CapabilityNote
        ELSE "note" \notin DOMAIN Envelope

C14_Witness ==
    /\ tool = "get_activity_details_amadeus"
    /\ CapabilityFailure
    /\ ErrorReturned
    /\ Envelope.note = CapabilityNote

(***************************************************************************)
(* C15.  Every failure envelope names exactly one error kind out of        *)
(* ValidationError, TransportError, ProviderError, UnsupportedCapability   *)
(* and UnexpectedError.                                                    *)
(***************************************************************************)
ErrorKinds ==
    {"ValidationError", "TransportError", "ProviderError", "UnsupportedCapability",
     "UnexpectedError"}

C15_FailureNamesErrorKind ==
    ErrorReturned =>
        Cardinality({k \in DOMAIN Envelope : Envelope[k] \in ErrorKinds}) = 1

(***************************************************************************)
(* C16.  One invocation issues at most one outbound provider request: no   *)
(* request is repeated after it failed, and an invocation rejected by      *)
(* local validation or for a missing credential issues none.               *)
(***************************************************************************)
\* the invocation ended in a local rejection: a validation error or a
\* missing-credential error
LocallyRejected ==
    \/ ReturnedError("Adults must be between 1 and 9")
    \/ ReturnedError("Total number of seated travelers (adults + children) cannot exceed 9")
    \/ ReturnedError("Number of infants cannot exceed number of adults")
    \/ ReturnedError("Either cityCode or hotelIds must be provided")
    \/ ReturnedError("SERPAPI_KEY environment variable is required")
    \/ ReturnedError("Unexpected error: EXCHANGE_RATE_API_KEY environment variable is required")

C16_AtMostOneRequest ==
    /\ calls <= 1
    /\ LocallyRejected => calls = 0

(***************************************************************************)
(* C17.  Every outbound HTTP request (of the four SerpAPI tools, the two   *)
(* Open-Meteo tools and convert_currency) is made with the request timeout *)
(* of 10 seconds.                                                          *)
(***************************************************************************)
HttpTools ==
    SerpapiTools \cup {"get_current_conditions", "get_weather_forecast", "convert_currency"}

\* the invocation issued its requests.get
RequestIssued == tool \in HttpTools /\ calls = 1

C17_EveryRequestTimesOut == RequestIssued => http_timeout = Some(10)

(***************************************************************************)
(* C18.  An invocation that has begun its outbound request comes back with *)
(* an envelope: when the provider never answers, the request times out and *)
(* the tool returns an error envelope.  A blocked invocation is one whose  *)
(* request never ends; no step of the machine leaves that state, so the    *)
(* claim is that no invocation is ever blocked.                            *)
(***************************************************************************)
C18_NoInvocationBlocksForever ==
    /\ status # "blocked"
    /\ (RequestIssued /\ env.http.kind = "no_answer") => ErrorReturned

(***************************************************************************)
(* C19.  Two invocations of a tool with the same arguments, against a      *)
(* provider that gives the same answers, return envelopes that agree in    *)
(* every field but the timestamp; and a validation verdict is the same in  *)
(* every environment.  The second invocation is the tool run again with    *)
(* the clock at any other value.                                           *)
(***************************************************************************)
\* the tool function registered under the name t
ToolFunction(t, a, e) ==
    CASE t = "search_flights_serpapi" -> search_flights_serpapi(a, e)
      [] t = "search_flights_amadeus" -> search_flights_amadeus(a, e)
      [] t = "search_hotels_serpapi" -> search_hotels_serpapi(a, e)
      [] t = "search_hotels_amadeus_by_city" -> search_hotels_amadeus_by_city(a, e)
      [] t = "search_hotels_amadeus_geocode" -> search_hotels_amadeus_geocode(a, e)
      [] t = "search_hotel_offers_amadeus" -> search_hotel_offers_amadeus(a, e)
      [] t = "search_events_serpapi" -> search_events_serpapi(a, e)
      [] t = "search_activities_amadeus" -> search_activities_amadeus(a, e)
      [] t = "get_activity_details_amadeus" -> get_activity_details_amadeus(a, e)
      [] t = "geocode_location" -> geocode_location(a, e)
      [] t = "calculate_distance" -> calculate_distance(a, e)
      [] t = "get_current_conditions" -> get_current_conditions(a, e)
      [] t = "get_weather_forecast" -> get_weather_forecast(a, e)
      [] t = "convert_currency" -> convert_currency(a, e)
      [] t = "lookup_stock" -> lookup_stock(a, e)

Without(m, keys) == [k \in DOMAIN m \ keys |-> m[k]]

\* the envelope m with its timestamp field taken out
WithoutTimestamp(m) ==
    LET top == Without(m, {"search_timestamp", "calculation_timestamp"})
    IN  IF "search_metadata" \in DOMAIN top
        THEN [top EXCEPT !["search_metadata"] = Without(@, {"search_timestamp"})]
        ELSE top

\* the envelope of the same invocation made when the clock shows n
Again(n) ==
    LET out == ToolFunction(tool, args, [env EXCEPT !.now = n])
    IN  IF out.status # "returned" THEN [raised |-> TRUE]
        ELSE IF tool \in AmadeusTools THEN out.result.json ELSE out.result

ValidationVerdicts ==
    {"Adults must be between 1 and 9",
     "Total number of seated travelers (adults + children) cannot exceed 9",
     "Number of infants cannot exceed number of adults",
     "Either cityCode or hotelIds must be provided"}

C19_SameEnvelopeButTimestamp ==
    status = "returned" =>
        /\ \A n \in Clock : WithoutTimestamp(Again(n)) = WithoutTimestamp(Envelope)
        /\ (ErrorReturned /\ Envelope.error \in ValidationVerdicts) =>
                \A e \in AmadeusEnvs :
                    ToolFunction(tool, args, e).result = json_dumps(Envelope)

C19_Witness ==
    /\ SuccessReturned
    /\ tool = "search_hotels_serpapi"
    /\ env.now = 1
    /\ Again(0) # Envelope
    /\ WithoutTimestamp(Again(0)) = WithoutTimestamp(Envelope)

(***************************************************************************)
(* Invocations side by side.  The runtime may have up to MaxWorkers tool   *)
(* functions active at once.  An activation binds its arguments, validates *)
(* them and builds params, waits for the provider, binds the answer and    *)
(* returns; the steps of different activations interleave freely.  Every   *)
(* name a tool function assigns (params, response, result, ...) is a local *)
(* of the activation; the only object the activations share is the client  *)
(* handle of the lifespan context.                                         *)
(***************************************************************************)
\* the calls made side by side: two tools, valid and invalid arguments, providers
\* that answer, fail, or never answer
ConcurrentCalls ==
    {<<"search_flights_amadeus", a, e>> :
        a \in {FlightsAmadeusBase, [FlightsAmadeusBase EXCEPT !.adults = 10],
               [FlightsAmadeusBase EXCEPT !.nonStop = Some(TRUE)]},
        e \in {[ctx |-> "unavailable", log |-> "ok", sdk |-> ResponseError, now |-> 0],
               [ctx |-> "ok", log |-> "ok", sdk |-> ResponseError, now |-> 0],
               [ctx |-> "ok", log |-> "ok", now |-> 1,
                sdk |-> SdkOk(JsonDict([data |-> Items("offer", MaxItems)]))]}}
    \cup {<<"search_flights_serpapi", FlightsSerpapiBase, e>> :
            e \in {[SERPAPI_KEY |-> None, http |-> ConnectionError, now |-> 0],
                   [SERPAPI_KEY |-> Some("secret"), http |-> NoAnswer, now |-> 0],
                   [SERPAPI_KEY |-> Some("secret"), now |-> 1,
                    http |-> OkResponse(JsonDict(
                                [best_flights |-> Items("best", MaxItems)]))]}}

\* all activations keeping their locals in one module-level place
Frame_ModuleLevel(w) == 1

\* the activation that holds the locals of invocation w
Frame(w) == w

\* the tool function reads the client handle (after its validation, line 247)
ReadsClientHandle(t, e, out) ==
    /\ t \in AmadeusTools
    /\ ~ClientHandleRaises(e)
    /\ ~(/\ out.status = "returned"
         /\ out.calls = 0
         /\ "error" \in DOMAIN out.result.json
         /\ out.result.json.error \in ValidationVerdicts)

Finished(inv, out) == [inv EXCEPT !.pc = "done", !.status = out.status, !.result = out.result]

\* the runtime calls a tool function: its parameters are bound in a new activation
Enter(w) ==
    /\ invocations[w].pc = "idle"
    /\ \E c \in ConcurrentCalls :
          /\ invocations' = [invocations EXCEPT ![w] =
                                [pc |-> "running", tool |-> c[1], args |-> c[2],
                                 env |-> c[3], status |-> "running", result |-> EmptyMap]]
          /\ frames' = [frames EXCEPT ![Frame(w)] =
                                [NoFrame EXCEPT !.tool = c[1], !.args = c[2]]]
    /\ UNCHANGED <<amadeus_client, call_vars>>

\* validation, the client handle, params; a call that needs no provider ends here
Request(w) ==
    /\ invocations[w].pc = "running"
    /\ LET f == frames[Frame(w)]
           out == ToolFunction(f.tool, f.args, invocations[w].env)
       IN  /\ frames' = [frames EXCEPT ![Frame(w)] =
                            [f EXCEPT !.params = out.params,
                                      !.amadeus_client =
                                          IF ReadsClientHandle(f.tool, invocations[w].env, out)
                                          THEN Some(amadeus_client) ELSE None]]
           /\ invocations' = [invocations EXCEPT ![w] =
                                IF out.calls = 0 THEN Finished(@, out)
                                ELSE [@ EXCEPT !.pc = "waiting"]]
    /\ UNCHANGED <<amadeus_client, call_vars>>

\* the provider's answer to this invocation's request is bound to response
Receive(w) ==
    /\ invocations[w].pc = "waiting"
    /\ LET f == frames[Frame(w)]
       IN  /\ ToolFunction(f.tool, f.args, invocations[w].env).status # "blocked"
           /\ frames' = [frames EXCEPT ![Frame(w)] =
                            [f EXCEPT !.response = invocations[w].env]]
    /\ invocations' = [invocations EXCEPT ![w] = [@ EXCEPT !.pc = "answered"]]
    /\ UNCHANGED <<amadeus_client, call_vars>>

\* normalisation and return, or the except handler
Return(w) ==
    /\ invocations[w].pc = "answered"
    /\ LET f == frames[Frame(w)]
       IN  invocations' = [invocations EXCEPT ![w] =
                              Finished(@, ToolFunction(f.tool, f.args, f.response))]
    /\ UNCHANGED <<amadeus_client, frames, call_vars>>

\* the runtime hands the outcome to the caller; the activation is gone
Deliver(w) ==
    /\ invocations[w].pc = "done"
    /\ invocations' = [invocations EXCEPT ![w] = IdleInvocation]
    /\ frames' = [frames EXCEPT ![Frame(w)] = NoFrame]
    /\ UNCHANGED <<amadeus_client, call_vars>>

NextConcurrent ==
    \E w \in Workers : Enter(w) \/ Request(w) \/ Receive(w) \/ Return(w) \/ Deliver(w)

SpecConcurrent == Init /\ [][NextConcurrent]_vars

(***************************************************************************)
(* C20.  In every interleaving each invocation returns what it returns     *)
(* when run alone against the same provider answers: the locals of its     *)
(* activation (arguments, params, response) are its own at every step, its *)
(* outcome is that of the tool function on its own arguments and           *)
(* environment whatever the other invocations do or fail at, and the       *)
(* shared client handle keeps the value the lifespan gave it.              *)
(***************************************************************************)
RunAlone(inv) == ToolFunction(inv.tool, inv.args, inv.env)

OwnLocals(w) ==
    LET inv == invocations[w]
        f == frames[Frame(w)]
    IN  /\ inv.pc # "idle" => (f.tool = inv.tool /\ f.args = inv.args)
        /\ inv.pc \in {"waiting", "answered"} => f.params = RunAlone(inv).params
        /\ inv.pc = "answered" => f.response = inv.env
        /\ inv.pc = "done" =>
                (inv.status = RunAlone(inv).status /\ inv.result = RunAlone(inv).result)

C20_InvocationsDoNotInterfere ==
    /\ amadeus_client = "client"
    /\ \A w \in Workers : OwnLocals(w)

\* one invocation has failed and is done while another, entered before it ended,
\* is done with its success envelope
C20_Witness ==
    \E v, w \in Workers :
        /\ v # w
        /\ invocations[v].pc = "done"
        /\ invocations[v].tool = "search_flights_amadeus"
        /\ invocations[v].status = "raised"
        /\ invocations[w].pc = "done"
        /\ invocations[w].tool = "search_flights_amadeus"
        /\ invocations[w].status = "returned"
        /\ "data" \in DOMAIN invocations[w].result.json
        /\ frames[Frame(w)].amadeus_client = Some(amadeus_client)

(***************************************************************************)
(* C21.  calculate_distance from A to B and from B to A report the same    *)
(* distance and the same all_units; the echoes point1 and point2 change    *)
(* places.  A call that fails one way fails the same way the other way.    *)
(***************************************************************************)
\* the same call with the two points exchanged
SwappedDistance ==
    calculate_distance([args EXCEPT !.lat1 = args.lat2, !.lon1 = args.lon2,
                                    !.lat2 = args.lat1, !.lon2 = args.lon1], env).result

C21_DistanceSymmetric ==
    (tool = "calculate_distance" /\ status = "returned") =>
        IF ErrorReturned THEN SwappedDistance = Envelope
        ELSE /\ SwappedDistance.distance = Envelope.distance
             /\ SwappedDistance.all_units = Envelope.all_units
             /\ SwappedDistance.point1 = Envelope.point2
             /\ SwappedDistance.point2 = Envelope.point1

C21_Witness ==
    /\ tool = "calculate_distance"
    /\ SuccessReturned
    /\ args.lat1 = 50 /\ args.lat2 = 48 /\ args.lon2 = 4
    /\ Envelope.distance.value > 0
    /\ SwappedDistance.point1 = [latitude |-> 48, longitude |-> 4]
    /\ SwappedDistance.distance = Envelope.distance

(***************************************************************************)
(* C22.  A successful calculate_distance result has kilometers, miles and  *)
(* nautical_miles in all_units whatever the unit; for a unit of km, miles  *)
(* or nm in any letter case distance.value is the all_units entry of that  *)
(* unit; and the miles entry equals the value a miles request gives for    *)
(* the same points.                                                        *)
(***************************************************************************)
\* what the same points give when the requested unit is u
DistanceIn(u) == calculate_distance([args EXCEPT !.unit = u], env).result.distance.value

C22_AllUnitsAgreeWithValue ==
    (tool = "calculate_distance" /\ SuccessReturned) =>
        /\ DOMAIN Envelope.all_units = {"kilometers", "miles", "nautical_miles"}
        /\ args.unit \in {"km", "KM"} => Envelope.distance.value = Envelope.all_units.kilometers
        /\ args.unit \in {"miles", "Miles"} => Envelope.distance.value = Envelope.all_units.miles
        /\ args.unit \in {"nm", "NM"} =>
                Envelope.distance.value = Envelope.all_units.nautical_miles
        /\ Envelope.all_units.kilometers = DistanceIn("km")
        /\ Envelope.all_units.miles = DistanceIn("miles")
        /\ Envelope.all_units.nautical_miles = DistanceIn("nm")

C22_Witness ==
    /\ tool = "calculate_distance"
    /\ SuccessReturned
    /\ args.unit = "Miles"
    /\ args.lat1 = 48 /\ args.lat2 = 51
    /\ Envelope.distance.value = Envelope.all_units.miles
    /\ Envelope.all_units.miles # Envelope.all_units.kilometers
    /\ Envelope.all_units.miles # Envelope.all_units.nautical_miles

(***************************************************************************)
(* C23.  A successful convert_currency result carries the provider's       *)
(* conversion_rate unchanged as exchange_rate, and its converted_amount is *)
(* the hundredth nearest to amount times that rate; USD to EUR for 100 at  *)
(* 0.92 gives 92.0 and 0.92.                                               *)
(***************************************************************************)
C23_RateUnchangedAmountRounded ==
    (tool = "convert_currency" /\ SuccessReturned) =>
        /\ Envelope.exchange_rate = Payload.conversion_rate
        /\ 2 * Abs(Envelope.conversion.converted_amount * RateScale
                   - args.amount * Payload.conversion_rate.value) <= RateScale
        /\ (args.amount = 10000 /\ Payload.conversion_rate = RateNumber(9200)) =>
                /\ Envelope.conversion.converted_amount = 9200
                /\ Envelope.exchange_rate = RateNumber(9200)

C23_Witness ==
    /\ tool = "convert_currency"
    /\ SuccessReturned
    /\ args.from_currency = "USD"
    /\ args.amount = 10000
    /\ Payload.conversion_rate = RateNumber(9200)
    /\ Envelope.conversion.converted_amount = 9200

\* a rate sent as a string, and a product that is not a whole number of hundredths
C23_Witness_Rounded ==
    /\ tool = "convert_currency"
    /\ SuccessReturned
    /\ args.amount = 12345
    /\ Payload.conversion_rate = RateNumber(3333)
    /\ Envelope.conversion.converted_amount = 4115

(***************************************************************************)
(* C24.  When the geocoder answers a lookup with no match (None, or an     *)
(* empty list for exactly_one false), geocode_location returns the error   *)
(* "Location '<name>' not found" with the requested name, a suggestions    *)
(* entry, and no coordinates.                                              *)
(***************************************************************************)
\* the answer of the lookup that ended the call
LastLookup == env.geocode[Len(env.geocode)]

GeocoderFoundNothing ==
    \/ LastLookup = [kind |-> "none"]
    \/ ~args.exactly_one /\ LastLookup = [kind |-> "matches", value |-> << >>]

C24_NoMatchIsNotFound ==
    (tool = "geocode_location" /\ status # "idle" /\ GeocoderFoundNothing) =>
        /\ status = "returned"
        /\ {"error", "suggestions"} \subseteq DOMAIN Envelope
        /\ Envelope.error = "Location '" \o args.location \o "' not found"
        /\ DOMAIN Envelope \cap {"coordinates", "multiple_results"} = {}

C24_Witness ==
    /\ tool = "geocode_location"
    /\ status = "returned"
    /\ ~args.exactly_one
    /\ args.location = "Atlantis"
    /\ LastLookup = [kind |-> "matches", value |-> << >>]
    /\ Envelope.error = "Location 'Atlantis' not found"
    /\ "suggestions" \in DOMAIN Envelope

(***************************************************************************)
(* C25.  When SERPAPI_KEY is absent from the environment, the four SerpAPI *)
(* tools return an error envelope that names SERPAPI_KEY and issue no      *)
(* request; when EXCHANGE_RATE_API_KEY is absent, convert_currency returns *)
(* an error envelope that names it and issues no request.                  *)
(***************************************************************************)
\* the error texts that name the environment variable v
NamingVariable(v) ==
    {v \o " environment variable is required",
     "Unexpected error: " \o v \o " environment variable is required"}

MissingCredential ==
    CASE tool \in SerpapiTools -> env.SERPAPI_KEY = None
      [] tool = "convert_currency" -> env.EXCHANGE_RATE_API_KEY = None
      [] OTHER -> FALSE

NeededCredential ==
    IF tool = "convert_currency" THEN "EXCHANGE_RATE_API_KEY" ELSE "SERPAPI_KEY"

C25_MissingCredentialFailsLocally ==
    (status # "idle" /\ MissingCredential) =>
        /\ ErrorReturned
        /\ Envelope.error \in NamingVariable(NeededCredential)
        /\ calls = 0

C25_Witness ==
    /\ tool = "convert_currency"
    /\ status = "returned"
    /\ env.EXCHANGE_RATE_API_KEY = None
    /\ Envelope.error = "Unexpected error: EXCHANGE_RATE_API_KEY environment variable is required"
    /\ calls = 0

(***************************************************************************)
(* C26.  An optional numeric argument supplied as 0 is sent to the         *)
(* provider like any other supplied value: the parameters of the request   *)
(* contain its key with value 0.  The arguments are children, infants and  *)
(* maxPrice of search_flights_amadeus, radius of the Amadeus hotel and     *)
(* activity tools, roomQuantity of search_hotel_offers_amadeus, sort_by    *)
(* and bedrooms of search_hotels_serpapi.                                  *)
(***************************************************************************)
NumericOptionals(t) ==
    CASE t = "search_flights_amadeus" -> {"children", "infants", "maxPrice"}
      [] t \in {"search_hotels_amadeus_by_city", "search_hotels_amadeus_geocode",
                "search_activities_amadeus"} -> {"radius"}
      [] t = "search_hotel_offers_amadeus" -> {"roomQuantity"}
      [] t = "search_hotels_serpapi" -> {"sort_by", "bedrooms"}
      [] OTHER -> {}

\* the invocation got as far as asking the provider
ProviderAsked == status = "blocked" \/ (status \in {"returned", "raised"} /\ calls >= 1)

C26_ZeroIsSupplied ==
    ProviderAsked =>
        \A k \in NumericOptionals(tool) :
            args[k] = Some(0) => (k \in DOMAIN params /\ params[k] = 0)

(***************************************************************************)
(* C27.  search_flights_amadeus called with more infants than adults, for  *)
(* any number of adults including 0, returns the infants error (or the     *)
(* error of an earlier validation) and makes no provider call.             *)
(***************************************************************************)
C27_InfantsAboveAdultsRejected ==
    (/\ tool = "search_flights_amadeus"
     /\ status # "idle"
     /\ args.infants # None
     /\ Val(args.infants) > args.adults) =>
        /\ calls = 0
        /\ \/ ReturnedError("Number of infants cannot exceed number of adults")
           \/ ReturnedError(
                "Total number of seated travelers (adults + children) cannot exceed 9")
           \/ ReturnedError("Adults must be between 1 and 9")

(***************************************************************************)
(* C28.  In search_events_serpapi every filter the caller gives reaches    *)
(* the provider: with date_filter the request carries the date chip, with  *)
(* event_type it carries the event-type chip, with both it carries both.   *)
(***************************************************************************)
DateChip == "date:" \o Val(args.date_filter)

TypeChip == "event_type:" \o Val(args.event_type)

\* the chips in the request's htichips value, which may join two with a comma
ChipsSent ==
    IF "htichips" \notin DOMAIN params THEN {}
    ELSE {c \in (IF TruthyStr(args.date_filter) THEN {DateChip} ELSE {})
                \cup (IF TruthyStr(args.event_type) THEN {TypeChip} ELSE {}) :
            \/ params.htichips = c
            \/ /\ TruthyStr(args.date_filter)
               /\ TruthyStr(args.event_type)
               /\ params.htichips \in {DateChip \o "," \o TypeChip,
                                       TypeChip \o "," \o DateChip}}

C28_EveryFilterSent ==
    (tool = "search_events_serpapi" /\ ProviderAsked) =>
        /\ TruthyStr(args.date_filter) => DateChip \in ChipsSent
        /\ TruthyStr(args.event_type) => TypeChip \in ChipsSent

(***************************************************************************)
(* C29.  In a successful calculate_distance result distance.unit names the *)
(* unit distance.value is expressed in, for every unit string the caller   *)
(* passes, the strings other than km, miles and nm included.               *)
(***************************************************************************)
\* the all_units entry a unit label names
UnitNamed ==
    [km |-> "kilometers", kilometers |-> "kilometers", miles |-> "miles",
     nm |-> "nautical_miles", nautical_miles |-> "nautical_miles"]

C29_LabelNamesUnitOfValue ==
    (tool = "calculate_distance" /\ SuccessReturned) =>
        /\ Envelope.distance.unit \in DOMAIN UnitNamed
        /\ Envelope.distance.value = Envelope.all_units[UnitNamed[Envelope.distance.unit]]

(***************************************************************************)
(* C30.  get_weather_forecast sends exactly one of the hourly and daily    *)
(* request parameters, the one the hourly flag selects; and when the       *)
(* provider answers, the result is a success envelope with one period per  *)
(* entry of the provider's time list, in its order, whose fields are the   *)
(* values at that position of the provider's series, or null where the     *)
(* series is absent, null or shorter than the time list.                   *)
(***************************************************************************)
\* the provider answered the forecast request with a JSON object
ForecastAnswered ==
    /\ tool = "get_weather_forecast"
    /\ status = "returned"
    /\ env.http.kind = "ok"
    /\ env.http.json.type = "dict"

SectionSent == DictGet(Payload, IF args.hourly THEN "hourly" ELSE "daily", EmptyMap)

TimesSent == IF "time" \in DOMAIN SectionSent THEN SectionSent["time"].value ELSE << >>

\* the i-th value of the provider's series, null when there is none
ValueSent(name, i) ==
    IF /\ name \in DOMAIN SectionSent
       /\ SectionSent[name].type = "list"
       /\ i <= Len(SectionSent[name].value)
    THEN SectionSent[name].value[i]
    ELSE None

C30_OnePeriodPerTimeGapsNull ==
    /\ (tool = "get_weather_forecast" /\ status # "idle") =>
            /\ ("hourly" \in DOMAIN params) = args.hourly
            /\ ("daily" \in DOMAIN params) = ~args.hourly
    /\ ForecastAnswered =>
            /\ SuccessReturned
            /\ Len(Envelope.forecast_periods) = Len(TimesSent)
            /\ \A i \in 1..Len(TimesSent) :
                    /\ Envelope.forecast_periods[i][IF args.hourly THEN "time" ELSE "date"]
                            = TimesSent[i]
                    /\ \A k \in DOMAIN SeriesOf(args.hourly) :
                            Envelope.forecast_periods[i][k]
                                = ValueSent(SeriesOf(args.hourly)[k], i)

====
